---- MODULE Spec2Model ----
(***************************************************************************)
(* Transcript structuring and normalization engine of aivoice:             *)
(* timestamp normalizer, speaker-run compressor, markdown stripper, block  *)
(* parser (preview and PDF export copies) and speaker counter.             *)
(*                                                                         *)
(* Text is a sequence of tokens.  A token is one character ("[", ":", a    *)
(* digit, " ", "\n", ...) or one word whose letters the patterns never     *)
(* look inside (see Spelling for the words whose letters they do look at). *)
(* The non-ASCII characters of the source are written with ASCII names:    *)
(*   PERSON = U+1F464, CLIPBOARD = U+1F4CB, BULLET = U+2022, TICK = U+0060.  *)
(* TranscriptionPanel.tsx stores its literals double-encoded (UTF-8 bytes  *)
(* read as cp1252); the model reads every literal of that file by the text *)
(* it decodes to, which is the text PDFExport.tsx holds.                   *)
(***************************************************************************)
EXTENDS Integers, Sequences, FiniteSets, TLC

VARIABLES
    text,          \* the argument of the operation under way
    pc,            \* position of the operation under way
    impl,          \* "panel" (TranscriptionPanel.tsx) or "export" (PDFExport.tsx)
    lines,         \* text.split('\n') of the scan under way
    lineNo,        \* number of lines already scanned
    result,        \* compressConsecutiveSpeakers: result[]
    lastSpeaker,   \* compressConsecutiveSpeakers: lastSpeaker
    prevSpeaker,   \* lastSpeaker before the line scanned last (history)
    emitted,       \* what the line scanned last pushed to result (history)
    out,           \* the value the operation returned
    out2,          \* the value a second application returned
    nodes,         \* block parser: nodes[] / blocks[]
    bulletBuffer,  \* preview parser: bulletBuffer[]
    matches,       \* speaker counter: modernMatches / legacyMatches
    count,         \* speaker counter: the number returned
    keys,          \* GeminiKeyManager: keys[]
    currentKeyIndex,   \* GeminiKeyManager: currentKeyIndex
    returned,      \* GeminiKeyManager: what the last call returned
    failedCalls,   \* per key id: markKeyAsFailed calls since the last markKeyAsUsed (history)
    selected,      \* ids of the keys the consecutive transcriptions used (history)
    clock,         \* number of addKey calls so far
    isSavingRecordingRef,  \* App: isSavingRecordingRef.current
    recordings,    \* App: the recordings list
    currentRecordingIdRef, \* App: currentRecordingIdRef.current, 0 for null
    saves          \* per saveCurrentRecording invocation: where it is

transcriptVars ==
    <<text, pc, impl, lines, lineNo, result, lastSpeaker, prevSpeaker,
      emitted, out, out2, nodes, bulletBuffer, matches, count>>
managerVars == <<keys, currentKeyIndex, returned, failedCalls, selected, clock>>
saveVars == <<isSavingRecordingRef, recordings, currentRecordingIdRef, saves>>

vars == <<transcriptVars, managerVars, saveVars>>

-----------------------------------------------------------------------------
(* Tokens *)

PERSON == "<person>"
CLIPBOARD == "<clipboard>"
BULLET == "<bullet>"
TICK == "<backtick>"
NL == "\n"
SP == " "

\* null / undefined: values no text equals
NULL == <<"<null>">>
UNDEFINED == <<"<undefined>">>

\* JavaScript \s restricted to the tokens of the model
WhiteSpace == {SP, NL, "\t", "\r"}
\* line terminators of ^ and $ under the m flag
LineTerminators == {NL, "\r"}
Digits == {"0", "1", "2", "3", "4", "5", "6", "7", "8", "9"}

\* The speaker word in its spellings.  KONUSMACI is the correct Turkish
\* spelling (s-cedilla, dotless i); the others are the variants the sources
\* name.  Each letter is one entry: "s," is s-cedilla, "i." is dotless i.
KONUSMACI == "Konus,maci."
KONUSMACI_LOWER == "konus,maci."
KONUSMACI_ASCII == "Konusmaci"
KONUSMACI_DOTTED == "Konus,maci"
KONUSMACI_NOCEDILLA == "Konusmaci."
KONUMACI == "Konumaci."
\* the legacy speaker word
KISISI == "Kis,isi"
KISISI_LOWER == "kis,isi"

Spelling(w) ==
    CASE w = KONUSMACI -> <<"K", "o", "n", "u", "s,", "m", "a", "c", "i.">>
      [] w = KONUSMACI_LOWER -> <<"k", "o", "n", "u", "s,", "m", "a", "c", "i.">>
      [] w = KONUSMACI_ASCII -> <<"K", "o", "n", "u", "s", "m", "a", "c", "i">>
      [] w = KONUSMACI_DOTTED -> <<"K", "o", "n", "u", "s,", "m", "a", "c", "i">>
      [] w = KONUSMACI_NOCEDILLA -> <<"K", "o", "n", "u", "s", "m", "a", "c", "i.">>
      [] w = KONUMACI -> <<"K", "o", "n", "u", "m", "a", "c", "i.">>
      [] w = KISISI -> <<"K", "i", "s,", "i", "s", "i">>
      [] w = KISISI_LOWER -> <<"k", "i", "s,", "i", "s", "i">>
      [] w = "selam" -> <<"s", "e", "l", "a", "m">>
      [] w = "Dostum" -> <<"D", "o", "s", "t", "u", "m">>
      [] OTHER -> <<w>>

\* Canonicalize of the i flag (no u flag): ASCII letters fold, s-cedilla
\* folds with its capital, dotless i folds with nothing (its upper case is
\* ASCII "I", which the rule excludes).
Fold(c) ==
    CASE c = "K" -> "k"
      [] c = "S," -> "s,"
      [] OTHER -> c

FoldAll(s) == [i \in 1..Len(s) |-> Fold(s[i])]

\* /Konus,maci./i at one word
IsSpeakerWord(w) == FoldAll(Spelling(w)) = FoldAll(Spelling(KONUSMACI))

-----------------------------------------------------------------------------
(* String primitives *)

RECURSIVE SkipWS(_, _)
\* first index >= i of s that holds no white space (Len(s) + 1 if none)
SkipWS(s, i) ==
    IF i <= Len(s) /\ s[i] \in WhiteSpace THEN SkipWS(s, i + 1) ELSE i

RECURSIVE SkipDigits(_, _)
SkipDigits(s, i) ==
    IF i <= Len(s) /\ s[i] \in Digits THEN SkipDigits(s, i + 1) ELSE i

RECURSIVE IndexOf(_, _, _)
\* first index >= i of token c in s, 0 if none
IndexOf(s, c, i) ==
    IF i > Len(s) THEN 0
    ELSE IF s[i] = c THEN i ELSE IndexOf(s, c, i + 1)

RECURSIVE LastNonWS(_, _)
LastNonWS(s, i) ==
    IF i >= 1 /\ s[i] \in WhiteSpace THEN LastNonWS(s, i - 1) ELSE i

TrimEnd(s) == SubSeq(s, 1, LastNonWS(s, Len(s)))
TrimStart(s) == SubSeq(s, SkipWS(s, 1), Len(s))
Trim(s) == TrimEnd(TrimStart(s))

From(s, i) == SubSeq(s, i, Len(s))

\* the least member of a set of indexes, 0 for the empty set: where the
\* leftmost match of a replace starts
Least(S) == IF S = {} THEN 0 ELSE CHOOSE k \in S : \A j \in S : k <= j

\* n tokens mk stand at index i
AllAt(s, mk, n, i) == i + n - 1 <= Len(s) /\ \A k \in 0..n - 1 : s[i + k] = mk

RECURSIVE RunLength(_, _, _)
\* the number of consecutive tokens mk from index i
RunLength(s, mk, i) ==
    IF i <= Len(s) /\ s[i] = mk THEN 1 + RunLength(s, mk, i + 1) ELSE 0

Min(a, b) == IF a < b THEN a ELSE b

RECURSIVE Flatten(_)
\* the concatenation of the strings of ss
Flatten(ss) == IF ss = <<>> THEN <<>> ELSE Head(ss) \o Flatten(Tail(ss))

RECURSIVE Split(_)
\* s.split('\n')
Split(s) ==
    LET i == IndexOf(s, NL, 1)
    IN IF i = 0 THEN <<s>>
       ELSE <<SubSeq(s, 1, i - 1)>> \o Split(From(s, i + 1))

RECURSIVE Join(_)
\* ls.join('\n')
Join(ls) ==
    IF Len(ls) = 0 THEN <<>>
    ELSE IF Len(ls) = 1 THEN ls[1]
    ELSE ls[1] \o <<NL>> \o Join(Tail(ls))

-----------------------------------------------------------------------------
(* TimestampNormalizer: the replace of normalizeGeminiTimestamps *)

\* mutant: the minutes are not padded
PadStart2_NoPad(d) == d

PadStart2(d) == IF Len(d) < 2 THEN <<"0">> \o d ELSE d

\* /\[(\d{1,2})\.(\d{2})\]/ anchored at index i: the index after the match
\* and the two groups, or end = 0
TimestampAt(s, i) ==
    LET d(k) == k <= Len(s) /\ s[k] \in Digits
        is(k, c) == k <= Len(s) /\ s[k] = c
        m == IF d(i + 1) /\ d(i + 2) /\ is(i + 3, ".") THEN 2
             ELSE IF d(i + 1) /\ is(i + 2, ".") THEN 1 ELSE 0
        p == i + m + 1   \* the dot
    IN IF is(i, "[") /\ m > 0 /\ d(p + 1) /\ d(p + 2) /\ is(p + 3, "]")
       THEN [end |-> p + 4, minutes |-> SubSeq(s, i + 1, i + m),
             seconds |-> SubSeq(s, p + 1, p + 2)]
       ELSE [end |-> 0, minutes |-> <<>>, seconds |-> <<>>]

RECURSIVE RewriteFrom(_, _)
\* .replace(/\[(\d{1,2})\.(\d{2})\]/g, ...) from index i
RewriteFrom(s, i) ==
    LET k == Least({j \in i..Len(s) : TimestampAt(s, j).end > 0})
        m == TimestampAt(s, k)
    IN IF k = 0 THEN From(s, i)
       ELSE SubSeq(s, i, k - 1)
            \o <<"[">> \o PadStart2(m.minutes) \o <<":">> \o PadStart2(m.seconds)
            \o <<"]">> \o RewriteFrom(s, m.end)

withNormalizedTimes(s) == RewriteFrom(s, 1)

-----------------------------------------------------------------------------
(* SpeakerRunCompressor: compressConsecutiveSpeakers (both copies) *)

NoMatch == [ok |-> FALSE, speakerId |-> <<>>, timeRaw |-> UNDEFINED, content |-> <<>>]

\* trimmed.match(/^(?:PERSON\s*)?Konus,maci.\s*(\d+)(?:\s*\[([^\]]*)\])?:\s*(.*)$/i)
\* with speakerMatch[2]?.trim() and speakerMatch[3].trim() applied
speakerMatch(trimmed) ==
    LET w == IF Len(trimmed) >= 1 /\ trimmed[1] = PERSON THEN SkipWS(trimmed, 2) ELSE 1
        d == IF w <= Len(trimmed) /\ IsSpeakerWord(trimmed[w])
             THEN SkipWS(trimmed, w + 1) ELSE 0
        e == IF d = 0 THEN 0 ELSE SkipDigits(trimmed, d)     \* after (\d+)
        b == IF e = 0 THEN 0 ELSE SkipWS(trimmed, e)         \* the "[" if any
        c == IF b = 0 THEN 0 ELSE IndexOf(trimmed, "]", b)   \* the first "]"
    IN IF d = 0 \/ e = d THEN NoMatch
       ELSE IF e <= Len(trimmed) /\ trimmed[e] = ":"
       THEN [ok |-> TRUE, speakerId |-> SubSeq(trimmed, d, e - 1),
             timeRaw |-> UNDEFINED, content |-> Trim(From(trimmed, e + 1))]
       ELSE IF /\ b <= Len(trimmed) /\ trimmed[b] = "[" /\ c > 0
               /\ c + 1 <= Len(trimmed) /\ trimmed[c + 1] = ":"
       THEN [ok |-> TRUE, speakerId |-> SubSeq(trimmed, d, e - 1),
             timeRaw |-> Trim(SubSeq(trimmed, b + 1, c - 1)),
             content |-> Trim(From(trimmed, c + 2))]
       ELSE NoMatch

\* a value used as a condition: undefined, null and '' are falsy
Truthy(v) == v # UNDEFINED /\ v # NULL /\ v # <<>>

\* mutant: no line is a structural heading
IsStructuralHeading_Never(trimmed) == FALSE

\* /^CLIPBOARD/.test(trimmed) || /^#{1,3}\s/.test(trimmed)
IsStructuralHeading(trimmed) ==
    LET is(k, c) == k <= Len(trimmed) /\ trimmed[k] = c
        ws(k) == k <= Len(trimmed) /\ trimmed[k] \in WhiteSpace
    IN \/ is(1, CLIPBOARD)
       \/ is(1, "#") /\ ws(2)
       \/ is(1, "#") /\ is(2, "#") /\ ws(3)
       \/ is(1, "#") /\ is(2, "#") /\ is(3, "#") /\ ws(4)

\* mutant: no line is a standalone continuation
continuationMatch_Never(trimmed) == [ok |-> FALSE, timeSegment |-> <<>>, content |-> <<>>]

\* trimmed.match(/^\[(\d{1,2}:\d{2})\]\s*(.*)$/)
continuationMatch(trimmed) ==
    LET d(k) == k <= Len(trimmed) /\ trimmed[k] \in Digits
        is(k, c) == k <= Len(trimmed) /\ trimmed[k] = c
        m == IF d(2) /\ d(3) /\ is(4, ":") THEN 2
             ELSE IF d(2) /\ is(3, ":") THEN 1 ELSE 0
        p == m + 2   \* the colon
    IN IF is(1, "[") /\ m > 0 /\ d(p + 1) /\ d(p + 2) /\ is(p + 3, "]")
       THEN [ok |-> TRUE, timeSegment |-> SubSeq(trimmed, 2, p + 2),
             content |-> Trim(From(trimmed, p + 4))]
       ELSE [ok |-> FALSE, timeSegment |-> <<>>, content |-> <<>>]

\* mutant: the continuation bullet loses its time
BulletLine_NoTime(timeRaw, content) ==
    <<SP, SP, BULLET, SP>> \o (IF Truthy(content) THEN content ELSE <<>>)

\* `  BULLET ${parts.join(' ')}`
BulletLine(timeRaw, content) ==
    <<SP, SP, BULLET, SP>>
    \o (IF Truthy(timeRaw) THEN <<"[">> \o timeRaw \o <<"]">> ELSE <<>>)
    \o (IF Truthy(timeRaw) /\ Truthy(content) THEN <<SP>> ELSE <<>>)
    \o (IF Truthy(content) THEN content ELSE <<>>)

\* the full header: prefix, then the content if any, trimmed
HeaderLine(speakerId, timeRaw, content) ==
    LET timeSegment == IF Truthy(timeRaw) THEN <<SP, "[">> \o timeRaw \o <<"]">> ELSE <<>>
        prefix == <<PERSON, SP, KONUSMACI, SP>> \o speakerId \o timeSegment \o <<":">>
    IN Trim(IF Truthy(content) THEN prefix \o <<SP>> \o content ELSE prefix)

\* what a same-speaker header with neither time nor content pushes:
\* TranscriptionPanel pushes the empty bulletLine, PDFExport pushes nothing
EmptyRepeat(which) == IF which = "panel" THEN <<(<<>>)>> ELSE <<>>

\* mutant: a scan that pushes every line trimmed and keeps the state
ScanLine_Trimmed(which, originalLine, last) == [push |-> <<Trim(originalLine)>>, last |-> last]

\* mutant: a scan that passes every line through and keeps the state
ScanLine_PassThrough(which, originalLine, last) == [push |-> <<originalLine>>, last |-> last]

\* One turn of lines.forEach: the lines pushed to result and the new lastSpeaker
ScanLine(which, originalLine, last) ==
    LET trimmed == Trim(originalLine)
        sm == speakerMatch(trimmed)
        reset == IF IsStructuralHeading(trimmed) THEN NULL ELSE last
        cm == continuationMatch(trimmed)
    IN IF trimmed = <<>> THEN [push |-> <<(<<>>)>>, last |-> NULL]
       ELSE IF sm.ok
       THEN IF last = sm.speakerId
            THEN [push |-> IF Truthy(sm.timeRaw) \/ Truthy(sm.content)
                           THEN <<BulletLine(sm.timeRaw, sm.content)>>
                           ELSE EmptyRepeat(which),
                  last |-> last]
            ELSE [push |-> <<HeaderLine(sm.speakerId, sm.timeRaw, sm.content)>>,
                  last |-> sm.speakerId]
       ELSE IF cm.ok /\ Truthy(reset)
       THEN [push |-> <<(<<SP, SP, BULLET, SP, "[">> \o cm.timeSegment \o <<"]">>
                         \o (IF Truthy(cm.content) THEN <<SP>> \o cm.content ELSE <<>>))>>,
             last |-> reset]
       ELSE [push |-> <<originalLine>>, last |-> reset]

\* mutant: the runs of newlines stay
CollapseNewlines_Kept(s, i) == From(s, i)

RECURSIVE CollapseNewlines(_, _)
\* .replace(/\n{3,}/g, '\n\n') from index i
CollapseNewlines(s, i) ==
    LET k == Least({j \in i..Len(s) : AllAt(s, NL, 3, j)})
    IN IF k = 0 THEN From(s, i)
       ELSE SubSeq(s, i, k - 1) \o <<NL, NL>>
            \o CollapseNewlines(s, k + RunLength(s, NL, k))

RECURSIVE LastTerminator(_, _, _)
\* the largest e in lo..hi with s[e] a line terminator, 0 if none
LastTerminator(s, lo, hi) ==
    IF hi < lo THEN 0
    ELSE IF s[hi] \in LineTerminators THEN hi ELSE LastTerminator(s, lo, hi - 1)

\* /^\s*BULLET\s*$/m anchored at index i: the index after the match, or 0.
\* \s* is greedy and runs over line ends; $ holds at the end of the text and
\* before a line terminator.
BulletOnlyAt(s, i) ==
    LET atLineStart == i = 1 \/ s[i - 1] \in LineTerminators
        j == SkipWS(s, i)
        k == j + 1
        m == SkipWS(s, k)
    IN IF atLineStart /\ j <= Len(s) /\ s[j] = BULLET
       THEN IF m > Len(s) THEN m ELSE LastTerminator(s, k, m - 1)
       ELSE 0

RECURSIVE DropBulletOnly(_, _)
\* .replace(/^\s*BULLET\s*$/gm, '') from index i
DropBulletOnly(s, i) ==
    LET k == Least({j \in i..Len(s) : BulletOnlyAt(s, j) > 0})
    IN IF k = 0 THEN From(s, i)
       ELSE SubSeq(s, i, k - 1) \o DropBulletOnly(s, BulletOnlyAt(s, k))

\* result.join('\n').replace(...).replace(...).trimEnd()
PostPass(res) == TrimEnd(DropBulletOnly(CollapseNewlines(Join(res), 1), 1))

RECURSIVE ScanAll(_, _, _, _)
ScanAll(which, ls, last, res) ==
    IF ls = <<>> THEN res
    ELSE LET r == ScanLine(which, Head(ls), last)
         IN ScanAll(which, Tail(ls), r.last, res \o r.push)

compressConsecutiveSpeakers(which, s) == PostPass(ScanAll(which, Split(s), NULL, <<>>))

\* TranscriptionPanel only
normalizeGeminiTimestamps(s) ==
    IF s = <<>> THEN s ELSE compressConsecutiveSpeakers("panel", withNormalizedTimes(s))

-----------------------------------------------------------------------------
(* MarkdownStripper: stripMarkdownTokens (both copies), and the markup     *)
(* replaces at the head of renderAiImprovedPreview                         *)

\* n tokens mk stand at index i of s
RECURSIVE Closing(_, _, _, _)
\* the lazy (.*?) followed by n tokens mk: the first index >= j where they
\* stand, with no line terminator on the way; 0 if none
Closing(s, mk, n, j) ==
    IF j > Len(s) THEN 0
    ELSE IF AllAt(s, mk, n, j) THEN j
    ELSE IF s[j] \in LineTerminators THEN 0
    ELSE Closing(s, mk, n, j + 1)

\* /mk{n}(.*?)mk{n}/ anchored at index i: the index of the closing, or 0
WrappedAt(s, mk, n, i) == IF AllAt(s, mk, n, i) THEN Closing(s, mk, n, i + n) ELSE 0

RECURSIVE UnwrapFrom(_, _, _, _)
UnwrapFrom(s, mk, n, i) ==
    LET k == Least({j \in i..Len(s) : WrappedAt(s, mk, n, j) > 0})
        c == WrappedAt(s, mk, n, k)
    IN IF k = 0 THEN From(s, i)
       ELSE SubSeq(s, i, k - 1) \o SubSeq(s, k + n, c - 1) \o UnwrapFrom(s, mk, n, c + n)

\* s.replace(/mk{n}(.*?)mk{n}/g, '$1')
Unwrap(s, mk, n) == UnwrapFrom(s, mk, n, 1)

\* /TICK{1,3}(.*?)TICK{1,3}/ anchored at index i, with a the run of backticks
\* at i: a >= 4 matches 3 + '' + up to 3; else the opening takes the run and
\* the content runs to the next backtick of the line; failing that, a run of
\* 2 or 3 matches itself with an empty content.  The index after the match
\* and the content, or end = 0.
TicksAt(s, i) ==
    LET a == RunLength(s, TICK, i)
        c == IF a >= 1 /\ a <= 3 THEN Closing(s, TICK, 1, i + a) ELSE 0
    IN IF a >= 4 THEN [end |-> i + 3 + Min(a - 3, 3), content |-> <<>>]
       ELSE IF c > 0
       THEN [end |-> c + Min(RunLength(s, TICK, c), 3), content |-> SubSeq(s, i + a, c - 1)]
       ELSE IF a >= 2 THEN [end |-> i + a, content |-> <<>>]
       ELSE [end |-> 0, content |-> <<>>]

RECURSIVE UnwrapTicksFrom(_, _)
\* s.replace(/TICK{1,3}(.*?)TICK{1,3}/g, '$1') from index i
UnwrapTicksFrom(s, i) ==
    LET k == Least({j \in i..Len(s) : TicksAt(s, j).end > 0})
        m == TicksAt(s, k)
    IN IF k = 0 THEN From(s, i)
       ELSE SubSeq(s, i, k - 1) \o m.content \o UnwrapTicksFrom(s, m.end)

RECURSIVE ReplaceCRLF(_)
\* .replace(/\r\n/g, '\n')
ReplaceCRLF(s) ==
    LET k == Least({j \in 1..Len(s) - 1 : s[j] = "\r" /\ s[j + 1] = NL})
    IN IF k = 0 THEN s
       ELSE SubSeq(s, 1, k - 1) \o <<NL>> \o ReplaceCRLF(From(s, k + 2))

\* mutant: runs of white space stay
CollapseSpaces_Kept(s, i) == From(s, i)

RECURSIVE CollapseSpaces(_, _)
\* .replace(/\s{2,}/g, ' ') from index i
CollapseSpaces(s, i) ==
    LET k == Least({j \in i..Len(s) : SkipWS(s, j) - j >= 2})
    IN IF k = 0 THEN From(s, i)
       ELSE SubSeq(s, i, k - 1) \o <<SP>> \o CollapseSpaces(s, SkipWS(s, k))

\* mutant: the asterisks left over stay
RemoveStars_Kept(s) == s
\* .replace(/\*/g, '')
RemoveStars(s) == SelectSeq(s, LAMBDA c : c # "*")

stripMarkdownTokens(value) ==
    IF ~Truthy(value) THEN <<>>
    ELSE Trim(CollapseSpaces(
             RemoveStars(Unwrap(Unwrap(Unwrap(value, "*", 3), "*", 2), "*", 1)), 1))

\* renderAiImprovedPreview: sanitizedText
sanitizedText(s) ==
    UnwrapTicksFrom(
        Unwrap(Unwrap(Unwrap(ReplaceCRLF(compressConsecutiveSpeakers("panel", s)),
                             "*", 3), "*", 2), "_", 2), 1)

-----------------------------------------------------------------------------
(* BlockParser: renderAiImprovedPreview ("panel") and                      *)
(* parseTranscriptionBlocks ("export")                                     *)

\* the title word in its spellings: 'BAS,LIK', 'Bas,li.k' and the literal
\* 'bas,li.k' the code compares with ("S," capital s-cedilla)
BASLIK_UPPER == "BAS,LIK"
BASLIK_TITLE == "Bas,li.k"
BASLIK_LOWER == "bas,li.k"

Letters(w) ==
    CASE w = BASLIK_UPPER -> <<"B", "A", "S,", "L", "I", "K">>
      [] w = BASLIK_TITLE -> <<"B", "a", "s,", "l", "i.", "k">>
      [] w = BASLIK_LOWER -> <<"b", "a", "s,", "l", "i.", "k">>
      [] OTHER -> Spelling(w)

\* String.prototype.toLowerCase of one letter: locale-free, so "I" becomes
\* the dotted "i" and the dotless "i." stays
LowerLetter(c) ==
    CASE c = "A" -> "a" [] c = "B" -> "b" [] c = "I" -> "i" [] c = "K" -> "k"
      [] c = "L" -> "l" [] c = "S," -> "s," [] c = "T" -> "t"
      [] OTHER -> c

\* value.toLowerCase(), letter by letter
toLowerCase(v) ==
    Flatten([i \in 1..Len(v) |-> [k \in 1..Len(Letters(v[i])) |-> LowerLetter(Letters(v[i])[k])]])

Heading(title, detail) == [type |-> "heading", title |-> title, detail |-> detail]
SpeakerTurn(speaker, time, content) ==
    [type |-> "speaker", speaker |-> speaker, time |-> time, content |-> content]
BulletList_First(items) == [type |-> "bullet", items |-> <<items[1]>>]
BulletList(items) == [type |-> "bullet", items |-> items]
BulletBlock(content) == [type |-> "bullet", content |-> content]
Paragraph(content) == [type |-> "paragraph", content |-> content]

\* /^[-_*]{3,}$/.test(line.replace(/\s+/g, ''))
IsSeparator(line) ==
    LET bare == SelectSeq(line, LAMBDA c : c \notin WhiteSpace)
    IN Len(bare) >= 3 /\ \A i \in 1..Len(bare) : bare[i] \in {"-", "_", "*"}

\* /^bu\s+transkripsiyon\s+metni/i.test(line)
IsDisclaimer(line) ==
    LET a == SkipWS(line, 2)
        b == SkipWS(line, a + 1)
    IN /\ Len(line) >= 1 /\ line[1] \in {"bu", "Bu", "BU"}
       /\ a > 2 /\ a <= Len(line) /\ line[a] = "transkripsiyon"
       /\ b > a + 1 /\ b <= Len(line) /\ line[b] = "metni"

\* (Kon[us,u]mac[i.i]|Konusmaci) under the i flag, at one word
IsParserSpeakerWord(w) ==
    LET sp == FoldAll(Spelling(w))
    IN \/ /\ Len(sp) = 8
          /\ SubSeq(sp, 1, 3) = <<"k", "o", "n">> /\ sp[4] \in {"u", "s,"}
          /\ SubSeq(sp, 5, 7) = <<"m", "a", "c">> /\ sp[8] \in {"i.", "i"}
       \/ sp = FoldAll(Spelling(KONUSMACI_ASCII))

\* .replace(/Konusmaci|Konusmaci.|Konus,maci/gi, 'Konus,maci.')
UnifySpelling(s) ==
    [i \in 1..Len(s) |->
        IF FoldAll(Spelling(s[i])) \in {FoldAll(Spelling(KONUSMACI_ASCII)),
                                        FoldAll(Spelling(KONUSMACI_NOCEDILLA)),
                                        FoldAll(Spelling(KONUSMACI_DOTTED))}
        THEN KONUSMACI ELSE s[i]]

\* the tail (?:\[([^\]]*)\])?\s*:\s*(.*)$ from index b (white space already
\* skipped): the time and the content, or ok = FALSE
TimedTail(line, b) ==
    LET c == IF b <= Len(line) /\ line[b] = "[" THEN IndexOf(line, "]", b) ELSE 0
        k == IF c > 0 THEN SkipWS(line, c + 1) ELSE b
    IN IF k <= Len(line) /\ line[k] = ":"
       THEN [ok |-> TRUE,
             timeRaw |-> IF c > 0 THEN Trim(SubSeq(line, b + 1, c - 1)) ELSE UNDEFINED,
             content |-> Trim(From(line, k + 1))]
       ELSE [ok |-> FALSE, timeRaw |-> UNDEFINED, content |-> <<>>]

\* mutant: a numbered-speaker pattern without the optional bracketed time
speakerPattern_Untimed(line) ==
    LET w == Min(RunLength(line, "*", 1), 2) + 1
        d == IF w <= Len(line) /\ IsParserSpeakerWord(line[w])
             THEN SkipWS(line, w + 1) ELSE 0
        e == IF d = 0 THEN 0 ELSE SkipDigits(line, d)
        k == IF e = 0 \/ e = d THEN 0
             ELSE SkipWS(line, e + Min(RunLength(line, "*", e), 2))
    IN IF k > 0 /\ k <= Len(line) /\ line[k] = ":"
       THEN [ok |-> TRUE, speakerNumber |-> SubSeq(line, d, e - 1),
             timeRaw |-> UNDEFINED, contentRaw |-> Trim(From(line, k + 1))]
       ELSE [ok |-> FALSE, speakerNumber |-> <<>>, timeRaw |-> UNDEFINED,
             contentRaw |-> <<>>]

\* line.match(/^\*{0,2}(Kon[us,u]mac[i.i]|Konusmaci)\s*(\d+)\*{0,2}\s*
\*            (?:\[([^\]]*)\])?\s*:\s*(.*)$/i)
speakerPattern(line) ==
    LET w == Min(RunLength(line, "*", 1), 2) + 1
        d == IF w <= Len(line) /\ IsParserSpeakerWord(line[w])
             THEN SkipWS(line, w + 1) ELSE 0
        e == IF d = 0 THEN 0 ELSE SkipDigits(line, d)
        t == IF e = 0 \/ e = d THEN [ok |-> FALSE]
             ELSE TimedTail(line, SkipWS(line, e + Min(RunLength(line, "*", e), 2)))
    IN IF t.ok
       THEN [ok |-> TRUE, speakerNumber |-> SubSeq(line, d, e - 1),
             timeRaw |-> t.timeRaw, contentRaw |-> t.content]
       ELSE [ok |-> FALSE, speakerNumber |-> <<>>, timeRaw |-> UNDEFINED,
             contentRaw |-> <<>>]

RECURSIVE IconTail(_, _, _)
\* line.match(/^PERSON\s*(.*?)\s*(?:\[([^\]]*)\])?\s*:\s*(.*)$/): the lazy
\* (.*?) from index a grows (to q - 1) until the tail matches
IconTail(line, a, q) ==
    IF q > Len(line) + 1 THEN [ok |-> FALSE]
    ELSE LET t == TimedTail(line, SkipWS(line, q))
         IN IF t.ok
            THEN [ok |-> TRUE, speakerRaw |-> SubSeq(line, a, q - 1),
                  timeRaw |-> t.timeRaw, contentRaw |-> t.content]
            ELSE IconTail(line, a, q + 1)

\* the block of a line that starts with PERSON
IconSpeaker(line) ==
    LET a == SkipWS(line, 2)
        m == IconTail(line, a, a)
        speakerRaw == IF m.ok THEN m.speakerRaw ELSE <<KONUSMACI>>
        timeRaw == IF m.ok THEN m.timeRaw ELSE UNDEFINED
        contentRaw == IF m.ok THEN m.contentRaw ELSE <<>>
    IN SpeakerTurn(UnifySpelling(stripMarkdownTokens(speakerRaw)),
                   IF Truthy(timeRaw) THEN stripMarkdownTokens(timeRaw) ELSE UNDEFINED,
                   stripMarkdownTokens(contentRaw))

\* /^[-BULLET]\s+/.test(line)
IsBulletLine(line) ==
    Len(line) >= 2 /\ line[1] \in {"-", BULLET} /\ line[2] \in WhiteSpace

\* line.match(/^\*{2,}\s*(.+?)(?:\s*\*{2,})?$/): two stars and at least one
\* more token.  Group 1 and the text after the first two stars differ only
\* in asterisks and outer white space, which stripMarkdownTokens removes.
IsLooseHeading(line) == Len(line) >= 3 /\ line[1] = "*" /\ line[2] = "*"

\* line.match(/^#{1,3}\s*(.*)$/)
IsMarkdownHeading(line) == Len(line) >= 1 /\ line[1] = "#"

RECURSIVE SplitOn(_, _)
\* cleaned.split(':')
SplitOn(s, c) ==
    LET i == IndexOf(s, c, 1)
    IN IF i = 0 THEN <<s>> ELSE <<SubSeq(s, 1, i - 1)>> \o SplitOn(From(s, i + 1), c)

\* the block of a line that starts with CLIPBOARD
IconHeading(line) ==
    LET cleaned == Trim(From(line, SkipWS(line, 2)))
        parts == SplitOn(cleaned, ":")
        rawTitle == Head(parts)
        rest == Tail(parts)
        title == stripMarkdownTokens(
                     IF Len(rest) > 0 THEN From(cleaned, Len(rawTitle) + 2) ELSE rawTitle)
        descriptorRaw == IF Len(rest) > 0 THEN Trim(rawTitle) ELSE UNDEFINED
    IN Heading(title,
               IF Truthy(descriptorRaw) /\ toLowerCase(descriptorRaw) # Letters(BASLIK_LOWER)
               THEN stripMarkdownTokens(descriptorRaw) ELSE UNDEFINED)

\* line.match(/^((?:Kon[us,u]mac[i.i]|Konusmaci)\s*\d+)\s*\[([^\]]*)\]\s*:\s*(.*)$/i)
fallbackSpeakerMatch(line) ==
    LET d == IF Len(line) >= 1 /\ IsParserSpeakerWord(line[1]) THEN SkipWS(line, 2) ELSE 0
        e == IF d = 0 THEN 0 ELSE SkipDigits(line, d)
        b == IF e = 0 \/ e = d THEN 0 ELSE SkipWS(line, e)
        t == IF b > 0 /\ b <= Len(line) /\ line[b] = "[" THEN TimedTail(line, b)
             ELSE [ok |-> FALSE]
    IN IF t.ok
       THEN [ok |-> TRUE, label |-> SubSeq(line, 1, e - 1), timeRaw |-> t.timeRaw,
             contentRaw |-> t.content]
       ELSE [ok |-> FALSE]

\* mutant: a chain that knows bullet lines and paragraphs only
Classify_BulletOrParagraph(which, line) ==
    IF IsBulletLine(line)
    THEN [kind |-> "bullet", made |-> <<stripMarkdownTokens(From(line, SkipWS(line, 2)))>>]
    ELSE [kind |-> "paragraph", made |-> <<Paragraph(stripMarkdownTokens(line))>>]

\* The classifier chain on one trimmed, non-blank line: the branch taken and
\* what it makes: <<block>>, or <<>> when the branch pushes nothing; for a
\* bullet line <<item text>>.  "separator" is a branch of the preview only.
Classify(which, line) ==
    LET sm == speakerPattern(line)
        fm == fallbackSpeakerMatch(line)
        title(v) == LET t == stripMarkdownTokens(v)
                    IN IF Truthy(t) THEN <<Heading(t, UNDEFINED)>> ELSE <<>>
        item(v) == LET t == stripMarkdownTokens(v) IN IF Truthy(t) THEN <<t>> ELSE <<>>
    IN IF which = "panel" /\ IsSeparator(line) THEN [kind |-> "separator", made |-> <<>>]
       ELSE IF IsDisclaimer(line) THEN [kind |-> "disclaimer", made |-> <<>>]
       ELSE IF sm.ok
       THEN [kind |-> "speaker",
             made |-> <<SpeakerTurn(<<KONUSMACI, SP>> \o sm.speakerNumber,
                                    IF Truthy(sm.timeRaw) THEN stripMarkdownTokens(sm.timeRaw)
                                    ELSE UNDEFINED,
                                    stripMarkdownTokens(sm.contentRaw))>>]
       ELSE IF line[1] = PERSON THEN [kind |-> "iconSpeaker", made |-> <<IconSpeaker(line)>>]
       ELSE IF IsBulletLine(line)
       THEN [kind |-> "bullet", made |-> item(From(line, SkipWS(line, 2)))]
       ELSE IF IsLooseHeading(line)
       THEN [kind |-> "looseHeading", made |-> title(From(line, 3))]
       ELSE IF IsMarkdownHeading(line)
       THEN [kind |-> "markdownHeading",
             made |-> title(From(line, SkipWS(line, Min(RunLength(line, "#", 1), 3) + 1)))]
       ELSE IF line[1] = CLIPBOARD THEN [kind |-> "iconHeading", made |-> <<IconHeading(line)>>]
       ELSE IF fm.ok
       THEN [kind |-> "fallbackSpeaker",
             made |-> <<SpeakerTurn(UnifySpelling(stripMarkdownTokens(fm.label)),
                                    IF Truthy(fm.timeRaw) THEN stripMarkdownTokens(fm.timeRaw)
                                    ELSE UNDEFINED,
                                    stripMarkdownTokens(fm.contentRaw))>>]
       ELSE [kind |-> "paragraph", made |-> <<Paragraph(stripMarkdownTokens(line))>>]

\* mutant: a list is pushed at every flush, pending bullets or none
Flushed_Always(ns, buffer) == Append(ns, BulletList(buffer))
\* mutant: the pending bullets are lost
Flushed_Dropped(ns, buffer) == ns
\* flushBullets(): nodes with the pending bullets pushed as one list
Flushed(ns, buffer) == IF Len(buffer) > 0 THEN Append(ns, BulletList(buffer)) ELSE ns

\* What one turn of lines.forEach does with the trimmed line and the branch c
\* the classifier took for it: the new nodes and bulletBuffer.  The preview
\* buffers bullets and flushes them before anything else it pushes; the
\* export pushes an empty paragraph for a blank line and each bullet as a
\* block of its own.
Placed(which, line, c, ns, buffer) ==
    IF line = <<>>
    THEN IF which = "panel" THEN [nodes |-> Flushed(ns, buffer), buffer |-> <<>>]
         ELSE [nodes |-> Append(ns, Paragraph(<<>>)), buffer |-> buffer]
    ELSE IF c.kind = "bullet"
    THEN IF which = "panel" THEN [nodes |-> ns, buffer |-> buffer \o c.made]
         ELSE [nodes |-> ns \o [i \in 1..Len(c.made) |-> BulletBlock(c.made[i])],
               buffer |-> buffer]
    ELSE IF which = "panel"
    THEN [nodes |-> Flushed(ns, buffer) \o c.made, buffer |-> <<>>]
    ELSE [nodes |-> ns \o c.made, buffer |-> buffer]

\* One turn of lines.forEach of the parser
ParseLine(which, rawLine, ns, buffer) ==
    Placed(which, Trim(rawLine), Classify(which, Trim(rawLine)), ns, buffer)

RECURSIVE ParseAll(_, _, _, _)
\* lines.forEach of the parser over ls, and the preview's last flushBullets()
ParseAll(which, ls, ns, buffer) ==
    IF ls = <<>> THEN (IF which = "panel" THEN Flushed(ns, buffer) ELSE ns)
    ELSE LET r == ParseLine(which, Head(ls), ns, buffer)
         IN ParseAll(which, Tail(ls), r.nodes, r.buffer)

\* the lines the parser classifies
ParserLines(which, s) ==
    IF which = "panel" THEN Split(sanitizedText(s))
    ELSE Split(compressConsecutiveSpeakers("export", ReplaceCRLF(s)))

\* the blocks of the export
parseTranscriptionBlocks(s) ==
    IF s = <<>> THEN <<>> ELSE ParseAll("export", ParserLines("export", s), <<>>, <<>>)

\* the nodes of the preview
renderAiImprovedPreview(s) == ParseAll("panel", ParserLines("panel", s), <<>>, <<>>)

-----------------------------------------------------------------------------
(* SpeakerCounter: countSpeakersFromTranscription, and the legacy labels    *)
(* of formatDetailedTranscription                                           *)

Alphabet ==
    <<"A", "B", "C", "D", "E", "F", "G", "H", "I", "J", "K", "L", "M",
      "N", "O", "P", "Q", "R", "S", "T", "U", "V", "W", "X", "Y", "Z">>
LowerAlphabet ==
    <<"a", "b", "c", "d", "e", "f", "g", "h", "i", "j", "k", "l", "m",
      "n", "o", "p", "q", "r", "s", "t", "u", "v", "w", "x", "y", "z">>

\* c.charCodeAt(0) of an ASCII letter
charCodeAt0(c) ==
    IF \E k \in 1..26 : Alphabet[k] = c THEN 64 + (CHOOSE k \in 1..26 : Alphabet[k] = c)
    ELSE 96 + (CHOOSE k \in 1..26 : LowerAlphabet[k] = c)

\* mutant: the letter keeps its case
toUpperCase_Kept(c) == c
\* letter.toUpperCase() of a one-letter token
toUpperCase(c) ==
    IF \E k \in 1..26 : LowerAlphabet[k] = c
    THEN Alphabet[CHOOSE k \in 1..26 : LowerAlphabet[k] = c] ELSE c

\* [A-Z] under the i flag at one token
IsLetter(c) == \E k \in 1..26 : c \in {Alphabet[k], LowerAlphabet[k]}

\* /Kis,isi/i at one word
IsLegacyWord(w) == FoldAll(Spelling(w)) = FoldAll(Spelling(KISISI))

\* /Konus,maci.\s*(\d+)/i anchored at index i: the index after the match and
\* the group, or end = 0
ModernAt(s, i) ==
    LET k == SkipWS(s, i + 1)
        e == SkipDigits(s, k)
    IN IF i <= Len(s) /\ IsSpeakerWord(s[i]) /\ e > k
       THEN [end |-> e, group |-> SubSeq(s, k, e - 1)]
       ELSE [end |-> 0, group |-> <<>>]

\* /([A-Z])\s*Kis,isi/i anchored at index i
LegacyAt(s, i) ==
    LET k == SkipWS(s, i + 1)
    IN IF i <= Len(s) /\ IsLetter(s[i]) /\ k <= Len(s) /\ IsLegacyWord(s[k])
       THEN [end |-> k + 1, group |-> <<s[i]>>]
       ELSE [end |-> 0, group |-> <<>>]

RECURSIVE modernMatches(_, _)
\* [...normalizedText.matchAll(/Konus,maci.\s*(\d+)/gi)].map(match => match[1])
modernMatches(s, i) ==
    LET k == Least({j \in i..Len(s) : ModernAt(s, j).end > 0})
    IN IF k = 0 THEN <<>>
       ELSE <<ModernAt(s, k).group>> \o modernMatches(s, ModernAt(s, k).end)

RECURSIVE legacyMatches(_, _)
\* [...normalizedText.matchAll(/([A-Z])\s*Kis,isi/gi)].map(match => match[1].toUpperCase())
legacyMatches(s, i) ==
    LET k == Least({j \in i..Len(s) : LegacyAt(s, j).end > 0})
    IN IF k = 0 THEN <<>>
       ELSE <<(<<toUpperCase(LegacyAt(s, k).group[1])>>)>> \o legacyMatches(s, LegacyAt(s, k).end)

\* mutant: every match counts
SetSize_Length(ms) == Len(ms)
\* new Set(ms).size
SetSize(ms) == Cardinality({ms[i] : i \in 1..Len(ms)})

Max(a, b) == IF a > b THEN a ELSE b

countSpeakersFromTranscription(s) ==
    IF Len(modernMatches(s, 1)) > 0 THEN Max(SetSize(modernMatches(s, 1)), 1)
    ELSE IF Len(legacyMatches(s, 1)) > 0 THEN Max(SetSize(legacyMatches(s, 1)), 1)
    ELSE 1

-----------------------------------------------------------------------------
(* LegacyFormatter: formatDetailedTranscription, statement by statement     *)

RECURSIVE CollapseWhitespace(_, _)
\* .replace(/\s+/g, ' ') from index i
CollapseWhitespace(s, i) ==
    LET k == Least({j \in i..Len(s) : s[j] \in WhiteSpace})
    IN IF k = 0 THEN From(s, i)
       ELSE SubSeq(s, i, k - 1) \o <<SP>> \o CollapseWhitespace(s, SkipWS(s, k))

DigitSeq == <<"0", "1", "2", "3", "4", "5", "6", "7", "8", "9">>

RECURSIVE Decimal(_)
\* `${n}` of a number n >= 0
Decimal(n) ==
    IF n < 10 THEN <<DigitSeq[n + 1]>> ELSE Decimal(n \div 10) \o <<DigitSeq[(n % 10) + 1]>>

\* \s*\[([^\]]+)\]:\s* anchored at index b: the index after the match and
\* the group, or end = 0
BracketedAt(s, b) ==
    LET o == SkipWS(s, b)
        c == IndexOf(s, "]", o + 1)
    IN IF o <= Len(s) /\ s[o] = "[" /\ c > o + 1 /\ c < Len(s) /\ s[c + 1] = ":"
       THEN [end |-> SkipWS(s, c + 2), time |-> SubSeq(s, o + 1, c - 1)]
       ELSE [end |-> 0, time |-> <<>>]

\* /([A-Z])\s*Kis,isi\s*\[([^\]]+)\]:\s*/i anchored at index i
LegacyLabelAt(s, i) ==
    LET m == LegacyAt(s, i)
        t == BracketedAt(s, m.end)
    IN IF m.end > 0 /\ t.end > 0
       THEN [end |-> t.end, letter |-> s[i], time |-> t.time]
       ELSE [end |-> 0, letter |-> "", time |-> <<>>]

\* the callback of the legacy replace: the label that stands for the match
LegacyReplacement(letter, time) ==
    LET speakerIndex == charCodeAt0(toUpperCase(letter)) - 64
        label == IF speakerIndex > 0 THEN <<KONUSMACI, SP>> \o Decimal(speakerIndex)
                 ELSE <<KONUSMACI, SP, toUpperCase(letter)>>
    IN <<PERSON, SP>> \o label \o <<SP, "[">> \o time \o <<"]", ":", SP>>

RECURSIVE convertLegacyLabels(_, _)
\* formatted.replace(/([A-Z])\s*Kis,isi\s*\[([^\]]+)\]:\s*/gi, ...) from index i
convertLegacyLabels(s, i) ==
    LET k == Least({j \in i..Len(s) : LegacyLabelAt(s, j).end > 0})
        m == LegacyLabelAt(s, k)
    IN IF k = 0 THEN From(s, i)
       ELSE SubSeq(s, i, k - 1) \o LegacyReplacement(m.letter, m.time)
            \o convertLegacyLabels(s, m.end)

\* Konus,maci.\s*(\d+)\s*\[([^\]]+)\]:\s* under the i flag anchored at index k
ModernLabelAt(s, k) ==
    LET m == ModernAt(s, k)
        t == BracketedAt(s, m.end)
    IN IF m.end > 0 /\ t.end > 0
       THEN [end |-> t.end, number |-> m.group, time |-> t.time]
       ELSE [end |-> 0, number |-> <<>>, time |-> <<>>]

\* '\n\nPERSON Konus,maci. $number [$time]: '
IconLabel(number, time) ==
    <<NL, NL, PERSON, SP, KONUSMACI, SP>> \o number \o <<SP, "[">> \o time \o <<"]", ":", SP>>

\* /PERSON\s*Konus,maci.\s*(\d+)\s*\[([^\]]+)\]:\s*/i anchored at index i
IconLabelAt(s, i) ==
    IF i <= Len(s) /\ s[i] = PERSON THEN ModernLabelAt(s, SkipWS(s, i + 1))
    ELSE [end |-> 0, number |-> <<>>, time |-> <<>>]

\* /(^|\n)\s*Konus,maci.\s*(\d+)\s*\[([^\]]+)\]:\s*/i anchored at index i:
\* ^ is the start of the text (no m flag)
BareLabelAt(s, i) ==
    LET viaStart == IF i = 1 THEN ModernLabelAt(s, SkipWS(s, 1))
                    ELSE [end |-> 0, number |-> <<>>, time |-> <<>>]
    IN IF viaStart.end > 0 THEN viaStart
       ELSE IF i <= Len(s) /\ s[i] = NL THEN ModernLabelAt(s, SkipWS(s, i + 1))
       ELSE viaStart

RECURSIVE normalizeIconLabels(_, _)
\* the first replace of "Normalize speaker label spacing", from index i
normalizeIconLabels(s, i) ==
    LET k == Least({j \in i..Len(s) : IconLabelAt(s, j).end > 0})
        m == IconLabelAt(s, k)
    IN IF k = 0 THEN From(s, i)
       ELSE SubSeq(s, i, k - 1) \o IconLabel(m.number, m.time) \o normalizeIconLabels(s, m.end)

RECURSIVE iconizeBareLabels(_, _)
\* the second replace of "Normalize speaker label spacing", from index i
iconizeBareLabels(s, i) ==
    LET k == Least({j \in i..Len(s) : BareLabelAt(s, j).end > 0})
        m == BareLabelAt(s, k)
    IN IF k = 0 THEN From(s, i)
       ELSE SubSeq(s, i, k - 1) \o IconLabel(m.number, m.time) \o iconizeBareLabels(s, m.end)

\* [a-z c, g, i. o. s, u.] and [A-Z C, G, I O. S, U.] of the punctuation rule, on the
\* letters of the model
IsLowerLetter(c) == (\E k \in 1..26 : LowerAlphabet[k] = c) \/ c \in {"s,", "i."}
IsUpperLetter(c) == (\E k \in 1..26 : Alphabet[k] = c) \/ c = "S,"

\* the letters of a word; a token that is no word has none
WordLetters(w) ==
    IF IsLowerLetter(w) \/ IsUpperLetter(w) THEN <<w>>
    ELSE IF Letters(w) = <<w>> THEN <<>> ELSE Letters(w)

\* /([a-z..])\s+([A-Z..])/ anchored at the last letter of the word at index
\* i: the index of the word that holds the capital, or 0
SentenceBreakAt(s, i) ==
    LET k == SkipWS(s, i + 1)
        a == WordLetters(s[i])
    IN IF /\ i <= Len(s) /\ a # <<>> /\ IsLowerLetter(a[Len(a)])
          /\ k > i + 1 /\ k <= Len(s)
          /\ WordLetters(s[k]) # <<>> /\ IsUpperLetter(WordLetters(s[k])[1])
       THEN k ELSE 0

RECURSIVE addPunctuation(_, _)
\* .replace(/([a-z..])\s+([A-Z..])/g, '$1. $2') from index i.  The match
\* takes the first letter of the next word only: a longer word can end the
\* next match, which then starts at that same word.
addPunctuation(s, i) ==
    LET j == Least({n \in i..Len(s) : SentenceBreakAt(s, n) > 0})
        k == SentenceBreakAt(s, j)
    IN IF j = 0 THEN From(s, i)
       ELSE SubSeq(s, i, j) \o <<".", SP>>
            \o (IF Len(WordLetters(s[k])) = 1 THEN <<s[k]>> \o addPunctuation(s, k + 1)
                ELSE IF SentenceBreakAt(s, k) > 0 THEN addPunctuation(s, k)
                ELSE <<s[k]>> \o addPunctuation(s, k + 1))

RECURSIVE SectionsFrom(_, _)
\* formatted.split(/(?=PERSON)/): the sections of s from index i
SectionsFrom(s, i) ==
    LET k == Least({j \in i + 1..Len(s) : s[j] = PERSON})
    IN IF k = 0 THEN <<From(s, i)>> ELSE <<SubSeq(s, i, k - 1)>> \o SectionsFrom(s, k)

\* the callback of sections.map
improveSection(section, index) ==
    LET cleaned == Trim(section)
    IN IF index = 0 /\ \A j \in 1..Len(section) : section[j] # PERSON THEN cleaned
       ELSE IF cleaned # <<>> /\ cleaned[1] = PERSON
       THEN <<NL, NL>> \o addPunctuation(cleaned, 1)
       ELSE cleaned

\* "Improve speaker sections"
improveSections(s) ==
    LET sections == SectionsFrom(s, 1)
    IN Flatten([n \in 1..Len(sections) |-> improveSection(sections[n], n - 1)])

\* /CLIPBOARD\s*(BAS,LIK|bas,li.k|Bas,li.k):\s*/i anchored at index i: the index
\* after the match, or 0
TitleLabelAt(s, i) ==
    LET k == SkipWS(s, i + 1)
    IN IF /\ i <= Len(s) /\ s[i] = CLIPBOARD
          /\ k < Len(s) /\ s[k] \in {BASLIK_UPPER, BASLIK_TITLE, BASLIK_LOWER}
          /\ s[k + 1] = ":"
       THEN SkipWS(s, k + 2) ELSE 0

RECURSIVE formatTitles(_, _)
\* "Improve title formatting", from index i
formatTitles(s, i) ==
    LET k == Least({j \in i..Len(s) : TitleLabelAt(s, j) > 0})
    IN IF k = 0 THEN From(s, i)
       ELSE SubSeq(s, i, k - 1) \o <<NL, NL, CLIPBOARD, SP, BASLIK_UPPER, ":", SP>>
            \o formatTitles(s, TitleLabelAt(s, k))

\* /\n\s*\n\s*\n/ anchored at index i: the index after the match, or 0.  The
\* match runs to the last line feed of the white space that starts at i, if
\* that white space holds three of them.
BlankLinesAt(s, i) ==
    LET e == SkipWS(s, i)
        feeds == {j \in i..e - 1 : s[j] = NL}
    IN IF i <= Len(s) /\ s[i] = NL /\ Cardinality(feeds) >= 3
       THEN 1 + (CHOOSE j \in feeds : \A n \in feeds : n <= j) ELSE 0

RECURSIVE collapseBlankLines(_, _)
\* .replace(/\n\s*\n\s*\n/g, '\n\n') from index i
collapseBlankLines(s, i) ==
    LET k == Least({j \in i..Len(s) : BlankLinesAt(s, j) > 0})
    IN IF k = 0 THEN From(s, i)
       ELSE SubSeq(s, i, k - 1) \o <<NL, NL>> \o collapseBlankLines(s, BlankLinesAt(s, k))

\* "Clean up extra spaces and newlines"
cleanUp(s) == Trim(CollapseWhitespace(collapseBlankLines(s, 1), 1))

-----------------------------------------------------------------------------
(* GeminiKeyManager: the class of services/GeminiKeyManager.ts.  A key is   *)
(* its id, isActive and failureCount; name, key text and the time stamps    *)
(* take no part in the selection.  An id is the number of the addKey call   *)
(* that made the key (Date.now() of distinct calls).                        *)

\* if (key.failureCount >= 3)
FailureLimit == 3

MaxKeysAdded == 3
MaxFailureCount == 4
MaxCycles == 6

KeyIds == 1..MaxKeysAdded

\* what a call returned: undefined (a void method), null, or a key
Undefined == [type |-> "undefined", id |-> 0]
NullKey == [type |-> "null", id |-> 0]
KeyRef(k) == [type |-> "key", id |-> k.id]

\* this.keys.filter(key => key.isActive)
ActiveKeys(ks) == SelectSeq(ks, LAMBDA k : k.isActive)

\* this.keys.findIndex(key => key.id === id) + 1, so 0 when there is none
IndexOfKey(ks, id) == Least({i \in 1..Len(ks) : ks[i].id = id})

NewKey(id) == [id |-> id, isActive |-> TRUE, failureCount |-> 0]

\* mutant: the index is used as it is
getCurrentKey_Unclamped(ks, index) ==
    IF index >= Len(ActiveKeys(ks)) THEN [key |-> NullKey, index |-> index]
    ELSE [key |-> KeyRef(ActiveKeys(ks)[index + 1]), index |-> index]

\* getCurrentKey(): the value returned and currentKeyIndex after the call
getCurrentKey(ks, index) ==
    IF Len(ActiveKeys(ks)) = 0 THEN [key |-> NullKey, index |-> index]
    ELSE IF index >= Len(ActiveKeys(ks))
    THEN [key |-> KeyRef(ActiveKeys(ks)[1]), index |-> 0]
    ELSE [key |-> KeyRef(ActiveKeys(ks)[index + 1]), index |-> index]

\* mutant: the index stays
rotateKey_Stay(ks, index) == index

\* rotateKey(): currentKeyIndex after the call
rotateKey(ks, index) ==
    IF Len(ActiveKeys(ks)) > 1 THEN (index + 1) % Len(ActiveKeys(ks)) ELSE index

\* markKeyAsUsed(keyId): the keys after the call
markKeyAsUsed(ks, keyId) ==
    [i \in 1..Len(ks) |->
        IF i = IndexOfKey(ks, keyId) THEN [ks[i] EXCEPT !.failureCount = 0] ELSE ks[i]]

\* mutant: a key is never disabled
markKeyAsFailed_NeverDisabled(ks, keyId) ==
    [i \in 1..Len(ks) |->
        IF i = IndexOfKey(ks, keyId)
        THEN [ks[i] EXCEPT !.failureCount = ks[i].failureCount + 1] ELSE ks[i]]

\* markKeyAsFailed(keyId): the keys after the call
markKeyAsFailed(ks, keyId) ==
    [i \in 1..Len(ks) |->
        IF i = IndexOfKey(ks, keyId)
        THEN [ks[i] EXCEPT !.failureCount = ks[i].failureCount + 1,
                           !.isActive = IF ks[i].failureCount + 1 >= FailureLimit
                                        THEN FALSE ELSE ks[i].isActive]
        ELSE ks[i]]

-----------------------------------------------------------------------------
(* Inputs *)

MaxPieces == 3
MaxNormalizeLines == 4
MaxCompressLines == 3
MaxParseLines == 2
MaxCountPieces == 3
MaxLegacyPieces == 2
MaxStripPieces == 3
MaxSaves == 3

\* every concatenation of at most n members of pool
Concats(pool, n) == UNION {{Flatten(f) : f \in [1..k -> pool]} : k \in 0..n}

\* every text of at most n lines of pool ('' is the text of no line)
Texts(pool, n) == UNION {{Join(f) : f \in [1..k -> pool]} : k \in 0..n}

TimestampPieces ==
    { <<"[", "4", ".", "0", "5", "]">>, <<"[", "1", "2", ".", "3", "0", "]">>,
      <<"[", "1", "2", ":", "3", "0", "]">>, <<"[", "1", "2", "3", ".", "4", "5", "]">>,
      <<"[", "4", ".", "5", "]">>, <<"[", "4", ".", "0", "5">>, <<"[">>, <<"]">>,
      <<"4">>, <<".">>, <<"a">>, <<SP>> }

Header(icon, word, id, time, content) ==
    (IF icon THEN <<PERSON, SP>> ELSE <<>>) \o <<word, SP>> \o id
    \o (IF time = <<>> THEN <<>> ELSE <<SP, "[">> \o time \o <<"]">>)
    \o <<":">> \o (IF content = <<>> THEN <<>> ELSE <<SP>> \o content)

T0000 == <<"0", "0", ":", "0", "0">>
T0005 == <<"0", "0", ":", "0", "5">>
T0007 == <<"0", "0", ":", "0", "7">>

CompressLines ==
    { Header(TRUE, KONUSMACI, <<"1">>, T0000, <<"Merhaba">>),
      Header(TRUE, KONUSMACI, <<"1">>, T0005, <<"Nasilsin">>),
      Header(FALSE, KONUSMACI_LOWER, <<"1">>, <<>>, <<>>),
      Header(FALSE, KONUSMACI, <<"2">>, <<>>, <<"b">>),
      <<"[">> \o T0007 \o <<"]", SP, "c">>,
      <<"#", SP, "t">>,
      <<CLIPBOARD, "t", SP>>,
      <<SP, "a", SP>>,
      <<SP>>,
      <<>> }

NormalizeLines ==
    { Header(TRUE, KONUSMACI, <<"1">>, <<"0", ".", "0", "5">>, <<"a">>),
      Header(FALSE, KONUSMACI, <<"1">>, <<>>, <<"b">>),
      <<"[", "0", ".", "0", "7", "]", SP, "c">>,
      <<BULLET>>,
      <<"a">>,
      <<>> }

\* two lines that hold a bullet marker only, between two plain lines
TwoBulletLines == Join(<<(<<"a">>), <<BULLET>>, <<BULLET>>, <<"b">>>>)

\* a header of speaker 2, then the speaker word and a number on two lines
\* with a bullet-only line between them
WordBulletNumber ==
    Join(<<Header(FALSE, KONUSMACI, <<"2">>, <<>>, <<"b">>),
           <<"x", SP, KONUSMACI>>, <<BULLET>>, <<"1">>>>)

\* the end-to-end scenario of the spec
Scenario ==
    Join(<<<<CLIPBOARD, SP, BASLIK_UPPER, ":", SP, "Toplanti">>,
           Header(TRUE, KONUSMACI, <<"1">>, <<"0", "0", ":", "0", "1">>, <<"Merhaba">>),
           Header(TRUE, KONUSMACI, <<"1">>, <<"0", "0", ":", "0", "3">>, <<"Nasilsin">>),
           Header(TRUE, KONUSMACI, <<"2">>, T0005, <<"Iyiyim">>)>>)

ParseLines ==
    { Header(TRUE, KONUSMACI, <<"1">>, T0005, <<"*", SP, "a", SP, "*">>),
      Header(FALSE, KONUSMACI, <<"1">>, <<>>, <<"b">>),
      <<"*", "*", KONUSMACI_ASCII, SP, "2", "*", "*", ":", SP, "c">>,
      <<"-", SP, "x", SP, SP, "y">>,
      <<BULLET, SP, "*">>,
      <<"-", "-", "-">>,
      <<"-", SP, "-", SP, "-">>,
      <<"*", "*", "*">>,
      <<"Bu", SP, "transkripsiyon", SP, "metni">>,
      <<"*", "*", "T", "*", "*">>,
      <<"*", "*", SP, "T">>,
      <<"#", "#", SP, "t">>,
      <<"#">>,
      <<CLIPBOARD, SP, "Konu", ":", SP, "Toplanti">>,
      <<CLIPBOARD, SP, BASLIK_TITLE, ":", SP, "Toplanti", ":", "x">>,
      <<CLIPBOARD, "Toplanti">>,
      <<TICK, "a", TICK>>,
      <<"a">>,
      <<>> }

\* two bullet lines, a blank line, a bullet line without text, a bullet line
\* and a paragraph
BulletRuns ==
    <<"-", SP, "x", SP, SP, "y", NL, BULLET, SP, "z", NL, NL,
      BULLET, SP, "*", NL, "-", SP, "x", SP, SP, "y", NL, "a">>

\* one-line texts around the fallback pattern (label, bracketed time, colon):
\* the spellings the compressor does not rewrite, white space before the
\* number, the bracket and the colon, a bold label, and near misses
TimedLabelLines ==
    { Header(FALSE, KONUSMACI_ASCII, <<"1">>, T0005, <<"x">>),
      Header(FALSE, KONUSMACI_NOCEDILLA, <<"2">>, T0005, <<>>),
      Header(FALSE, KONUSMACI_DOTTED, <<"1", "2">>, <<SP>>, <<"x">>),
      <<KONUSMACI_ASCII, "1", "[", "]", ":", "x">>,
      <<KONUSMACI_ASCII, SP, SP, "1", SP, SP, "[", "0", ":", "5", "]", SP, ":", SP, "x">>,
      <<"*", "*", KONUSMACI_ASCII, SP, "1", "*", "*", SP, "[", "0", ":", "5", "]", ":", SP, "x">>,
      <<KONUSMACI_ASCII, SP, "1", SP, "[", "0", ":", "5", "]", SP, "x">>,
      <<KONUSMACI_ASCII, SP, "[", "0", ":", "5", "]", ":", SP, "x">>,
      <<"x", SP, KONUSMACI_ASCII, SP, "1", SP, "[", "0", ":", "5", "]", ":", SP, "x">> }

ParseInputs == Texts(ParseLines, MaxParseLines) \cup {Scenario, BulletRuns} \cup TimedLabelLines

CountPieces ==
    { <<KONUSMACI, SP, "1">>, <<KONUSMACI_LOWER, "2">>, <<KONUSMACI, SP, "0", "1">>,
      <<KONUSMACI_ASCII, SP, "3">>, <<KONUSMACI>>, <<"1">>,
      <<"A", SP, KISISI>>, <<"a", KISISI_LOWER>>, <<"B", SP, KISISI>>, <<KISISI>>,
      <<"x", SP>> }

T01 == <<"[", "0", ":", "1", "]", ":">>

LegacyPieces ==
    { <<"A", SP, KISISI, SP>> \o T01 \o <<SP>>,
      <<"a", KISISI_LOWER>> \o T01,
      <<"B", SP, KISISI, SP>> \o T01 \o <<SP>>,
      <<"Z", SP, KISISI, SP>> \o T01 \o <<SP>>,
      <<"A", SP, KISISI, SP>>,
      <<KONUSMACI, SP, "3", SP>> \o T01 \o <<SP>>,
      <<PERSON, KONUSMACI_LOWER, "4">> \o T01,
      <<CLIPBOARD, BASLIK_LOWER, ":">>,
      <<"selam", SP>>, <<"Dostum", SP>>,
      <<NL, SP, NL, NL>> }

\* the example of the spec: '**iyi gunler**'
BoldGreeting == <<"*", "*", "iyi", SP, "gunler", "*", "*">>

StripPieces ==
    { <<"*">>, <<"*", "*">>, <<"*", "*", "*">>, <<"a">>, <<"b">>,
      <<SP>>, <<SP, SP>>, <<NL>> }

-----------------------------------------------------------------------------
(* The operations as steps *)

ScanIdle ==
    /\ lines = <<>> /\ lineNo = 0 /\ result = <<>>
    /\ lastSpeaker = NULL /\ prevSpeaker = NULL /\ emitted = <<>>

ParserIdle == nodes = <<>> /\ bulletBuffer = <<>>

CounterIdle == matches = <<>> /\ count = 0

ManagerIdle ==
    /\ keys = <<>> /\ currentKeyIndex = 0 /\ returned = Undefined
    /\ failedCalls = [id \in KeyIds |-> 0] /\ selected = <<>> /\ clock = 0

SaveIdle ==
    /\ isSavingRecordingRef = FALSE /\ recordings = <<>>
    /\ currentRecordingIdRef = 0 /\ saves = <<>>

scanVars == <<lines, lineNo, result, lastSpeaker, prevSpeaker, emitted>>
parserVars == <<nodes, bulletBuffer>>
counterVars == <<matches, count>>

\* const lines = text.split('\n'); const result = []; let lastSpeaker = null
BeginScan(s) ==
    /\ lines' = Split(s)
    /\ lineNo' = 0
    /\ result' = <<>>
    /\ lastSpeaker' = NULL
    /\ prevSpeaker' = NULL
    /\ emitted' = <<>>

\* one turn of lines.forEach in compressConsecutiveSpeakers
ScanStep ==
    /\ pc = "scan"
    /\ lineNo < Len(lines)
    /\ LET r == ScanLine(impl, lines[lineNo + 1], lastSpeaker)
       IN /\ result' = result \o r.push
          /\ lastSpeaker' = r.last
          /\ emitted' = r.push
    /\ prevSpeaker' = lastSpeaker
    /\ lineNo' = lineNo + 1
    /\ UNCHANGED <<managerVars, saveVars, counterVars, text, pc, impl, lines, out, out2, parserVars>>

\* return result.join('\n').replace(...).replace(...).trimEnd()
ScanReturn ==
    /\ pc = "scan"
    /\ lineNo = Len(lines)
    /\ out' = PostPass(result)
    /\ pc' = "returned"
    /\ UNCHANGED <<managerVars, saveVars, counterVars, text, impl, scanVars, out2, parserVars>>

\* normalizeGeminiTimestamps(text): if (!text) return text
NormalizeEmpty ==
    /\ pc = "normalize"
    /\ text = <<>>
    /\ out' = text
    /\ pc' = "returned"
    /\ UNCHANGED <<managerVars, saveVars, counterVars, text, impl, scanVars, out2, parserVars>>

\* normalizeGeminiTimestamps(text): the replace, then the call of the compressor
NormalizeBegin ==
    /\ pc = "normalize"
    /\ text # <<>>
    /\ BeginScan(withNormalizedTimes(text))
    /\ pc' = "scan"
    /\ UNCHANGED <<managerVars, saveVars, counterVars, text, impl, out, out2, parserVars>>

\* normalizeGeminiTimestamps applied to what it returned
NormalizeAgain ==
    /\ pc = "returned"
    /\ out2' = normalizeGeminiTimestamps(out)
    /\ pc' = "twice"
    /\ UNCHANGED <<managerVars, saveVars, counterVars, text, impl, scanVars, out, parserVars>>

\* transcribeWithGemini: countSpeakersFromTranscription(normalizedTranscription)
CountNormalized ==
    /\ pc = "returned"
    /\ count' = countSpeakersFromTranscription(out)
    /\ pc' = "speakers counted"
    /\ UNCHANGED <<managerVars, saveVars, matches, text, impl, scanVars, out, out2, parserVars>>

InitNormalize ==
    /\ text \in Texts(NormalizeLines, MaxNormalizeLines) \cup {WordBulletNumber}
    /\ pc = "normalize"
    /\ impl = "panel"
    /\ ScanIdle /\ ParserIdle /\ CounterIdle /\ ManagerIdle /\ SaveIdle
    /\ out = NULL /\ out2 = NULL

NextNormalize ==
    \/ NormalizeEmpty \/ NormalizeBegin \/ ScanStep \/ ScanReturn \/ NormalizeAgain
    \/ CountNormalized

SpecNormalize == InitNormalize /\ [][NextNormalize]_vars

\* compressConsecutiveSpeakers(text) of either copy
CompressBegin ==
    /\ pc = "compress"
    /\ BeginScan(text)
    /\ pc' = "scan"
    /\ UNCHANGED <<managerVars, saveVars, counterVars, text, impl, out, out2, parserVars>>

InitCompress ==
    /\ text \in Texts(CompressLines, MaxCompressLines) \cup {TwoBulletLines}
    /\ pc = "compress"
    /\ impl \in {"panel", "export"}
    /\ ScanIdle /\ ParserIdle /\ CounterIdle /\ ManagerIdle /\ SaveIdle
    /\ out = NULL /\ out2 = NULL

NextCompress == CompressBegin \/ ScanStep \/ ScanReturn

SpecCompress == InitCompress /\ [][NextCompress]_vars

\* the replace of normalizeGeminiTimestamps on its own
RewriteTimestamps ==
    /\ pc = "rewrite"
    /\ out' = withNormalizedTimes(text)
    /\ pc' = "returned"
    /\ UNCHANGED <<managerVars, saveVars, counterVars, text, impl, scanVars, out2, parserVars>>

InitTimestamps ==
    /\ text \in Concats(TimestampPieces, MaxPieces)
    /\ pc = "rewrite"
    /\ impl = "panel"
    /\ ScanIdle /\ ParserIdle /\ CounterIdle /\ ManagerIdle /\ SaveIdle
    /\ out = NULL /\ out2 = NULL

NextTimestamps == RewriteTimestamps

SpecTimestamps == InitTimestamps /\ [][NextTimestamps]_vars

\* parseTranscriptionBlocks(text): if (!text) return []
ParseEmpty ==
    /\ pc = "parse"
    /\ impl = "export"
    /\ text = <<>>
    /\ nodes' = <<>>
    /\ pc' = "parsed"
    /\ UNCHANGED <<managerVars, saveVars, counterVars, text, impl, scanVars, out, out2, bulletBuffer>>

\* the head of the parser: compress, clean, split
ParseBegin ==
    /\ pc = "parse"
    /\ impl = "panel" \/ text # <<>>
    /\ lines' = ParserLines(impl, text)
    /\ lineNo' = 0
    /\ nodes' = <<>>
    /\ bulletBuffer' = <<>>
    /\ pc' = "parsing"
    /\ UNCHANGED <<managerVars, saveVars, counterVars, text, impl, result, lastSpeaker, prevSpeaker, emitted, out, out2>>

\* one turn of lines.forEach of the parser
ParseStep ==
    /\ pc = "parsing"
    /\ lineNo < Len(lines)
    /\ \E r \in {ParseLine(impl, lines[lineNo + 1], nodes, bulletBuffer)} :
          /\ nodes' = r.nodes
          /\ bulletBuffer' = r.buffer
    /\ lineNo' = lineNo + 1
    /\ UNCHANGED <<managerVars, saveVars, counterVars, text, pc, impl, lines, result, lastSpeaker, prevSpeaker, emitted,
                   out, out2>>

\* the end of the parser: the preview's last flushBullets(), the return
ParseReturn ==
    /\ pc = "parsing"
    /\ lineNo = Len(lines)
    /\ nodes' = IF impl = "panel" THEN Flushed(nodes, bulletBuffer) ELSE nodes
    /\ bulletBuffer' = <<>>
    /\ pc' = "parsed"
    /\ UNCHANGED <<managerVars, saveVars, counterVars, text, impl, scanVars, out, out2>>

InitParse ==
    /\ text \in ParseInputs
    /\ pc = "parse"
    /\ impl \in {"panel", "export"}
    /\ ScanIdle /\ ParserIdle /\ CounterIdle /\ ManagerIdle /\ SaveIdle
    /\ out = NULL /\ out2 = NULL

NextParse == ParseEmpty \/ ParseBegin \/ ParseStep \/ ParseReturn

SpecParse == InitParse /\ [][NextParse]_vars

\* the speaker counter, step by step
CountModern ==
    /\ pc = "count"
    /\ matches' = modernMatches(text, 1)
    /\ pc' = "modern"
    /\ UNCHANGED <<managerVars, saveVars, text, impl, scanVars, out, out2, parserVars, count>>

\* if (modernMatches.length > 0) return Math.max(new Set(modernMatches).size, 1)
CountModernReturn ==
    /\ pc = "modern"
    /\ Len(matches) > 0
    /\ count' = Max(SetSize(matches), 1)
    /\ pc' = "counted"
    /\ UNCHANGED <<managerVars, saveVars, text, impl, scanVars, out, out2, parserVars, matches>>

\* mutant: the legacy pattern is consulted whatever the modern one found
CountLegacy_Always ==
    /\ pc = "modern"
    /\ matches' = legacyMatches(text, 1)
    /\ pc' = "legacy"
    /\ UNCHANGED <<managerVars, saveVars, text, impl, scanVars, out, out2, parserVars, count>>

\* const legacyMatches = ..., reached when modernMatches is empty
CountLegacy ==
    /\ pc = "modern"
    /\ Len(matches) = 0
    /\ matches' = legacyMatches(text, 1)
    /\ pc' = "legacy"
    /\ UNCHANGED <<managerVars, saveVars, text, impl, scanVars, out, out2, parserVars, count>>

\* if (legacyMatches.length > 0) return Math.max(new Set(legacyMatches).size, 1)
CountLegacyReturn ==
    /\ pc = "legacy"
    /\ Len(matches) > 0
    /\ count' = Max(SetSize(matches), 1)
    /\ pc' = "counted"
    /\ UNCHANGED <<managerVars, saveVars, text, impl, scanVars, out, out2, parserVars, matches>>

\* return 1
CountDefault ==
    /\ pc = "legacy"
    /\ Len(matches) = 0
    /\ count' = 1
    /\ pc' = "counted"
    /\ UNCHANGED <<managerVars, saveVars, text, impl, scanVars, out, out2, parserVars, matches>>

InitCount ==
    /\ text \in Concats(CountPieces, MaxCountPieces) \cup {Scenario}
    /\ pc = "count"
    /\ impl = "panel"
    /\ ScanIdle /\ ParserIdle /\ CounterIdle /\ ManagerIdle /\ SaveIdle
    /\ out = NULL /\ out2 = NULL

NextCount ==
    CountModern \/ CountModernReturn \/ CountLegacy \/ CountLegacyReturn \/ CountDefault

SpecCount == InitCount /\ [][NextCount]_vars

\* formatDetailedTranscription(text), statement by statement; out is formatted
FormatBegin ==
    /\ pc = "format"
    /\ out' = Trim(CollapseWhitespace(text, 1))
    /\ pc' = "trimmed"
    /\ UNCHANGED <<managerVars, saveVars, counterVars, text, impl, scanVars, out2, parserVars>>

\* "Convert legacy speaker labels to the modern format"
FormatLegacy ==
    /\ pc = "trimmed"
    /\ out' = convertLegacyLabels(out, 1)
    /\ pc' = "converted"
    /\ UNCHANGED <<managerVars, saveVars, counterVars, text, impl, scanVars, out2, parserVars>>

\* "Normalize speaker label spacing and ensure icon usage", first replace
FormatIconLabels ==
    /\ pc = "converted"
    /\ out' = normalizeIconLabels(out, 1)
    /\ pc' = "spaced"
    /\ UNCHANGED <<managerVars, saveVars, counterVars, text, impl, scanVars, out2, parserVars>>

\* the same, second replace
FormatBareLabels ==
    /\ pc = "spaced"
    /\ out' = iconizeBareLabels(out, 1)
    /\ pc' = "iconized"
    /\ UNCHANGED <<managerVars, saveVars, counterVars, text, impl, scanVars, out2, parserVars>>

FormatSections ==
    /\ pc = "iconized"
    /\ out' = improveSections(out)
    /\ pc' = "sectioned"
    /\ UNCHANGED <<managerVars, saveVars, counterVars, text, impl, scanVars, out2, parserVars>>

FormatTitles ==
    /\ pc = "sectioned"
    /\ out' = formatTitles(out, 1)
    /\ pc' = "titled"
    /\ UNCHANGED <<managerVars, saveVars, counterVars, text, impl, scanVars, out2, parserVars>>

FormatPunctuation ==
    /\ pc = "titled"
    /\ out' = addPunctuation(out, 1)
    /\ pc' = "punctuated"
    /\ UNCHANGED <<managerVars, saveVars, counterVars, text, impl, scanVars, out2, parserVars>>

\* "Clean up extra spaces and newlines"; return formatted
FormatReturn ==
    /\ pc = "punctuated"
    /\ out' = cleanUp(out)
    /\ pc' = "formatted"
    /\ UNCHANGED <<managerVars, saveVars, counterVars, text, impl, scanVars, out2, parserVars>>

InitFormat ==
    /\ text \in Concats(LegacyPieces, MaxLegacyPieces)
    /\ pc = "format"
    /\ impl = "panel"
    /\ ScanIdle /\ ParserIdle /\ CounterIdle /\ ManagerIdle /\ SaveIdle
    /\ out = NULL /\ out2 = NULL

NextFormat ==
    \/ FormatBegin \/ FormatLegacy \/ FormatIconLabels \/ FormatBareLabels
    \/ FormatSections \/ FormatTitles \/ FormatPunctuation \/ FormatReturn

SpecFormat == InitFormat /\ [][NextFormat]_vars

\* stripMarkdownTokens(value) on its own
StripMarkdown ==
    /\ pc = "strip"
    /\ out' = stripMarkdownTokens(text)
    /\ pc' = "stripped"
    /\ UNCHANGED <<managerVars, saveVars, counterVars, text, impl, scanVars, out2, parserVars>>

\* stripMarkdownTokens applied to what it returned
StripAgain ==
    /\ pc = "stripped"
    /\ out2' = stripMarkdownTokens(out)
    /\ pc' = "stripped twice"
    /\ UNCHANGED <<managerVars, saveVars, counterVars, text, impl, scanVars, out, parserVars>>

InitStrip ==
    /\ text \in Concats(StripPieces, MaxStripPieces) \cup {BoldGreeting}
    /\ pc = "strip"
    /\ impl \in {"panel", "export"}
    /\ ScanIdle /\ ParserIdle /\ CounterIdle /\ ManagerIdle /\ SaveIdle
    /\ out = NULL /\ out2 = NULL

NextStrip == StripMarkdown \/ StripAgain

SpecStrip == InitStrip /\ [][NextStrip]_vars

\* addKey(name, apiKey)
AddKey ==
    /\ clock < MaxKeysAdded
    /\ clock' = clock + 1
    /\ keys' = Append(keys, NewKey(clock + 1))
    /\ failedCalls' = [failedCalls EXCEPT ![clock + 1] = 0]
    /\ returned' = Undefined
    /\ UNCHANGED <<transcriptVars, saveVars, currentKeyIndex, selected>>

\* updateKey(id, { isActive }), as the settings page calls it
UpdateKey ==
    \E id \in KeyIds, active \in BOOLEAN :
        /\ keys' = [i \in 1..Len(keys) |->
                       IF i = IndexOfKey(keys, id) THEN [keys[i] EXCEPT !.isActive = active]
                       ELSE keys[i]]
        /\ returned' = Undefined
        /\ UNCHANGED <<transcriptVars, saveVars, currentKeyIndex, failedCalls, selected, clock>>

\* deleteKey(id)
DeleteKey ==
    \E id \in KeyIds :
        /\ keys' = SelectSeq(keys, LAMBDA k : k.id # id)
        /\ currentKeyIndex' = IF currentKeyIndex >= Len(keys') THEN 0 ELSE currentKeyIndex
        /\ failedCalls' = [failedCalls EXCEPT ![id] = 0]
        /\ returned' = Undefined
        /\ UNCHANGED <<transcriptVars, saveVars, selected, clock>>

\* getCurrentKey()
GetCurrentKey ==
    /\ returned' = getCurrentKey(keys, currentKeyIndex).key
    /\ currentKeyIndex' = getCurrentKey(keys, currentKeyIndex).index
    /\ UNCHANGED <<transcriptVars, saveVars, keys, failedCalls, selected, clock>>

\* markKeyAsUsed(keyId)
MarkKeyAsUsed ==
    \E id \in KeyIds :
        /\ keys' = markKeyAsUsed(keys, id)
        /\ failedCalls' = [failedCalls EXCEPT ![id] = 0]
        /\ returned' = Undefined
        /\ UNCHANGED <<transcriptVars, saveVars, currentKeyIndex, selected, clock>>

\* markKeyAsFailed(keyId)
MarkKeyAsFailed ==
    \E id \in KeyIds :
        /\ IndexOfKey(keys, id) > 0 => keys[IndexOfKey(keys, id)].failureCount < MaxFailureCount
        /\ keys' = markKeyAsFailed(keys, id)
        /\ failedCalls' = [failedCalls EXCEPT
                              ![id] = IF IndexOfKey(keys, id) > 0 THEN @ + 1 ELSE @]
        /\ returned' = Undefined
        /\ UNCHANGED <<transcriptVars, saveVars, currentKeyIndex, selected, clock>>

\* rotateKey()
RotateKey ==
    /\ currentKeyIndex' = rotateKey(keys, currentKeyIndex)
    /\ returned' = Undefined
    /\ UNCHANGED <<transcriptVars, saveVars, keys, failedCalls, selected, clock>>

\* a new manager: no stored keys
InitKeys ==
    /\ text = <<>> /\ pc = "keys" /\ impl = "panel"
    /\ ScanIdle /\ ParserIdle /\ CounterIdle /\ ManagerIdle /\ SaveIdle
    /\ out = NULL /\ out2 = NULL

NextKeys ==
    \/ AddKey \/ UpdateKey \/ DeleteKey \/ GetCurrentKey
    \/ MarkKeyAsUsed \/ MarkKeyAsFailed \/ RotateKey

SpecKeys == InitKeys /\ [][NextKeys]_vars

\* the manager when nothing but markKeyAsUsed and markKeyAsFailed changes isActive
NextKeyFailures ==
    \/ AddKey \/ DeleteKey \/ GetCurrentKey
    \/ MarkKeyAsUsed \/ MarkKeyAsFailed \/ RotateKey

SpecKeyFailures == InitKeys /\ [][NextKeyFailures]_vars

\* transcribeWithGemini: const currentKey = keyManager.getCurrentKey()
TranscribeGetKey ==
    /\ returned = Undefined
    /\ Len(selected) < MaxCycles
    /\ returned' = getCurrentKey(keys, currentKeyIndex).key
    /\ currentKeyIndex' = getCurrentKey(keys, currentKeyIndex).index
    /\ UNCHANGED <<transcriptVars, saveVars, keys, failedCalls, selected, clock>>

\* transcribeWithGemini, the transcription succeeded:
\* keyManager.markKeyAsUsed(currentKey.id); keyManager.rotateKey()
TranscribeSucceed ==
    /\ returned.type = "key"
    /\ keys' = markKeyAsUsed(keys, returned.id)
    /\ failedCalls' = [failedCalls EXCEPT ![returned.id] = 0]
    /\ currentKeyIndex' = rotateKey(keys', currentKeyIndex)
    /\ selected' = Append(selected, returned.id)
    /\ returned' = Undefined
    /\ UNCHANGED <<transcriptVars, saveVars, clock>>

\* transcribeWithGemini, the request failed: the catch block leaves the manager alone
TranscribeFail ==
    /\ returned.type = "key"
    /\ selected' = <<>>
    /\ returned' = Undefined
    /\ UNCHANGED <<transcriptVars, saveVars, keys, currentKeyIndex, failedCalls, clock>>

\* the stored keys a manager can hold: at most MaxKeysAdded keys, each active or not
StoredKeys ==
    UNION {{[i \in 1..n |-> [id |-> i, isActive |-> f[i], failureCount |-> 0]] :
               f \in [1..n -> BOOLEAN]} : n \in 0..MaxKeysAdded}

InitRotation ==
    /\ text = <<>> /\ pc = "keys" /\ impl = "panel"
    /\ ScanIdle /\ ParserIdle /\ CounterIdle /\ SaveIdle
    /\ out = NULL /\ out2 = NULL
    /\ keys \in StoredKeys
    /\ currentKeyIndex \in 0..MaxKeysAdded - 1
    /\ returned = Undefined
    /\ failedCalls = [id \in KeyIds |-> 0] /\ selected = <<>> /\ clock = Len(keys)

NextRotation == TranscribeGetKey \/ TranscribeSucceed \/ TranscribeFail

SpecRotation == InitRotation /\ [][NextRotation]_vars

\* saveCurrentRecording of App.tsx (impl "App") and of its copy in
\* utils/migration.ts (impl "migration").  An invocation runs without
\* interruption up to an await or to its end; saves holds one entry per
\* invocation: where it is, and the id of the stored recording it found when
\* it started (0 for none).  A recording is its id and the invocation that
\* wrote it last.  The updater handed to setRecordings is taken to run with
\* the call.

\* persistRecordings(records): what localStorage could take
Persisted(records, stored) ==
    IF stored = "all" \/ records = <<>> THEN records
    ELSE IF stored = "last" THEN <<records[Len(records)]>>
    ELSE <<>>

\* recordings.findIndex(recording => recording.id === existingId) >= 0, as an id
ExistingRecording(records, existingId) ==
    IF existingId # 0 /\ \E n \in 1..Len(records) : records[n].id = existingId
    THEN existingId ELSE 0

\* mutant: the finally block does not reset the flag
SaveFinish_FlagKept(ss, i, threw, stored) ==
    /\ recordings' = recordings
    /\ currentRecordingIdRef' = currentRecordingIdRef
    /\ saves' = [ss EXCEPT ![i].pc = IF threw THEN "failed" ELSE "saved"]
    /\ isSavingRecordingRef' = TRUE

\* the rest of the try block of invocation i of ss, and the finally block
SaveFinish(ss, i, threw, stored) ==
    LET existing == IF impl = "App" THEN ExistingRecording(recordings, currentRecordingIdRef)
                    ELSE ss[i].existingId
        written == IF existing = 0 THEN Append(recordings, [id |-> i, by |-> i])
                   ELSE [n \in 1..Len(recordings) |->
                            IF recordings[n].id = existing THEN [id |-> existing, by |-> i]
                            ELSE recordings[n]]
    IN /\ recordings' = IF threw THEN recordings ELSE Persisted(written, stored)
       /\ currentRecordingIdRef' =
              IF ~threw /\ existing = 0 THEN i ELSE currentRecordingIdRef
       /\ saves' = [ss EXCEPT ![i].pc = IF threw THEN "failed" ELSE "saved"]
       /\ isSavingRecordingRef' = FALSE

\* if (isSavingRecordingRef.current) return
SaveSkipped ==
    /\ Len(saves) < MaxSaves
    /\ isSavingRecordingRef
    /\ saves' = Append(saves, [pc |-> "skipped", existingId |-> 0])
    /\ UNCHANGED <<transcriptVars, managerVars, isSavingRecordingRef, recordings,
                   currentRecordingIdRef>>

\* no transcript, no Gemini text and no audio: the flag is set, reset, return
SaveNothing ==
    /\ Len(saves) < MaxSaves
    /\ ~isSavingRecordingRef
    /\ saves' = Append(saves, [pc |-> "nothing to save", existingId |-> 0])
    /\ isSavingRecordingRef' = FALSE
    /\ UNCHANGED <<transcriptVars, managerVars, recordings, currentRecordingIdRef>>

\* with audio: the flag is set and the invocation is suspended on its first await
SaveSuspend ==
    /\ Len(saves) < MaxSaves
    /\ ~isSavingRecordingRef
    /\ isSavingRecordingRef' = TRUE
    /\ \E directory \in BOOLEAN :
          saves' = Append(saves,
              [pc |-> IF impl = "migration" /\ directory
                      THEN "awaiting writeRecordingToDirectory"
                      ELSE "awaiting blobToBase64",
               existingId |-> ExistingRecording(recordings, currentRecordingIdRef)])
    /\ UNCHANGED <<transcriptVars, managerVars, recordings, currentRecordingIdRef>>

\* with a text and no audio: no await is reached, the invocation runs to its end
SaveAtOnce ==
    /\ Len(saves) < MaxSaves
    /\ ~isSavingRecordingRef
    /\ \E threw \in BOOLEAN, stored \in {"all", "last", "none"} :
          SaveFinish(Append(saves, [pc |-> "running",
                         existingId |-> ExistingRecording(recordings, currentRecordingIdRef)]),
                     Len(saves) + 1, threw, stored)
    /\ UNCHANGED <<transcriptVars, managerVars>>

\* migration.ts: writeRecordingToDirectory settled, with a file name or with null
SaveWriteSettled ==
    /\ \E i \in 1..Len(saves) :
          /\ saves[i].pc = "awaiting writeRecordingToDirectory"
          /\ \/ \E threw \in BOOLEAN, stored \in {"all", "last", "none"} :
                   SaveFinish(saves, i, threw, stored)
             \/ /\ saves' = [saves EXCEPT ![i].pc = "awaiting blobToBase64"]
                /\ UNCHANGED <<isSavingRecordingRef, recordings, currentRecordingIdRef>>
    /\ UNCHANGED <<transcriptVars, managerVars>>

\* blobToBase64 settled: resolved, or rejected and caught by the inner catch
SaveBase64Settled ==
    /\ \E i \in 1..Len(saves) :
          /\ saves[i].pc = "awaiting blobToBase64"
          /\ \E threw \in BOOLEAN, stored \in {"all", "last", "none"} :
                SaveFinish(saves, i, threw, stored)
    /\ UNCHANGED <<transcriptVars, managerVars>>

\* useEffect on isRecording: currentRecordingIdRef.current = null
RecordingStarted ==
    /\ currentRecordingIdRef # 0
    /\ currentRecordingIdRef' = 0
    /\ UNCHANGED <<transcriptVars, managerVars, isSavingRecordingRef, recordings, saves>>

InitSave ==
    /\ text = <<>> /\ pc = "saves" /\ impl \in {"App", "migration"}
    /\ ScanIdle /\ ParserIdle /\ CounterIdle /\ ManagerIdle /\ SaveIdle
    /\ out = NULL /\ out2 = NULL

NextSave ==
    \/ SaveSkipped \/ SaveNothing \/ SaveSuspend \/ SaveAtOnce
    \/ SaveWriteSettled \/ SaveBase64Settled \/ RecordingStarted

\* a promise that an invocation awaits settles
SpecSave ==
    /\ InitSave /\ [][NextSave]_vars
    /\ WF_vars(SaveWriteSettled) /\ WF_vars(SaveBase64Settled)

-----------------------------------------------------------------------------
(* C1 *)

\* C1 (idempotence): normalizeGeminiTimestamps applied to its own output
\* returns that output unchanged.
C1_Idempotent == pc = "twice" => out2 = out

-----------------------------------------------------------------------------
(* C2 *)

\* the starts of the bracketed minute.second occurrences of s, stated on
\* positions: "[", one or two digits, ".", two digits, "]"
DotStamps(s) ==
    {i \in 1..Len(s) : \E m \in {1, 2} :
        /\ i + m + 4 <= Len(s)
        /\ s[i] = "[" /\ s[i + m + 1] = "." /\ s[i + m + 4] = "]"
        /\ \A k \in (i + 1..i + m) \cup (i + m + 2..i + m + 3) : s[k] \in Digits}

\* t is s with every occurrence rewritten and every other token in place:
\* each one-digit minute gains a "0", each dot of an occurrence is a ":"
IsRewriteOf(s, t) ==
    LET short == {i \in DotStamps(s) : s[i + 2] = "."}
        dots == {IF i \in short THEN i + 2 ELSE i + 3 : i \in DotStamps(s)}
        shift(j) == Cardinality({i \in short : i < j})
    IN /\ Len(t) = Len(s) + Cardinality(short)
       /\ \A j \in 1..Len(s) : t[j + shift(j)] = IF j \in dots THEN ":" ELSE s[j]
       /\ \A i \in short : t[i + shift(i) + 1] = "0"

\* C2 (timestamp rewrite): every [m.ss] / [mm.ss] becomes [mm:ss], zero
\* padded, and every other character of the input stays as it was.
C2_TimestampRewrite == pc = "returned" => IsRewriteOf(text, out)

C2_Witness ==
    /\ pc = "returned"
    /\ text = <<"[", "4", ".", "0", "5", "]">> \o <<"[", "1", "2", ".", "3", "0", "]">>
              \o <<"[", "1", "2", ":", "3", "0", "]">>
    /\ out = <<"[", "0", "4", ":", "0", "5", "]">> \o <<"[", "1", "2", ":", "3", "0", "]">>
             \o <<"[", "1", "2", ":", "3", "0", "]">>

-----------------------------------------------------------------------------
(* C3 *)

\* the speaker header the line scanned last is, if it is one
LastHeader == speakerMatch(Trim(lines[lineNo]))

\* '  BULLET [time] content', the time only if present
ContinuationBullet(time, content) ==
    <<SP, SP, BULLET>>
    \o (IF Truthy(time) THEN <<SP, "[">> \o time \o <<"]">> ELSE <<>>)
    \o (IF Truthy(content) THEN <<SP>> \o content ELSE <<>>)

\* 'PERSON Konus,maci. N [time]: content'
FullHeader(id, time, content) ==
    <<PERSON, SP, KONUSMACI, SP>> \o id
    \o (IF Truthy(time) THEN <<SP, "[">> \o time \o <<"]">> ELSE <<>>)
    \o <<":">>
    \o (IF Truthy(content) THEN <<SP>> \o content ELSE <<>>)

RunExample ==
    Join(<<Header(TRUE, KONUSMACI, <<"1">>, T0000, <<"Merhaba">>),
           Header(TRUE, KONUSMACI, <<"1">>, T0005, <<"Nasilsin">>)>>)

RunExampleHolds ==
    pc = "returned" /\ text = RunExample =>
        out = Join(<<Header(TRUE, KONUSMACI, <<"1">>, T0000, <<"Merhaba">>),
                     <<SP, SP, BULLET, SP, "[">> \o T0005 \o <<"]", SP, "Nasilsin">>>>)

\* C3 as claimed: every header that repeats lastSpeaker is emitted as a
\* continuation bullet, every other header in full, setting lastSpeaker.
C3_RunCompression_Claimed ==
    /\ lineNo > 0 /\ LastHeader.ok =>
         IF prevSpeaker = LastHeader.speakerId
         THEN emitted = <<ContinuationBullet(LastHeader.timeRaw, LastHeader.content)>>
         ELSE /\ emitted = <<FullHeader(LastHeader.speakerId, LastHeader.timeRaw,
                                        LastHeader.content)>>
              /\ lastSpeaker = LastHeader.speakerId
    /\ RunExampleHolds

\* C3 (run compression), amended: a header that repeats lastSpeaker and has a
\* time or a content is emitted as the continuation bullet '  BULLET [time]
\* content' (with neither, no bullet is emitted); the first header of a run
\* is emitted in full and sets lastSpeaker; the two-line example holds.
C3_RunCompression ==
    /\ lineNo > 0 /\ LastHeader.ok =>
         IF prevSpeaker = LastHeader.speakerId
         THEN IF Truthy(LastHeader.timeRaw) \/ Truthy(LastHeader.content)
              THEN emitted = <<ContinuationBullet(LastHeader.timeRaw, LastHeader.content)>>
              ELSE emitted \in {<<>>, <<(<<>>)>>}
         ELSE /\ emitted = <<FullHeader(LastHeader.speakerId, LastHeader.timeRaw,
                                        LastHeader.content)>>
              /\ lastSpeaker = LastHeader.speakerId
    /\ RunExampleHolds

C3_Witness ==
    /\ pc = "returned"
    /\ text = RunExample
    /\ prevSpeaker = <<"1">>
    /\ emitted = <<(<<SP, SP, BULLET, SP, "[">> \o T0005 \o <<"]", SP, "Nasilsin">>)>>

-----------------------------------------------------------------------------
(* C4 *)

\* a text the normalizer returns as it is
IsNormalized(s) == normalizeGeminiTimestamps(s) = s

\* A line of the parser that pushes nothing although it is not blank: a
\* separator (preview only), the disclaimer, or a bullet or heading line
\* whose text is empty once the markup is stripped.
Dropped(which, line) ==
    \/ which = "panel" /\ IsSeparator(line)
    \/ IsDisclaimer(line)
    \/ /\ Classify(which, line).kind \in {"bullet", "looseHeading", "markdownHeading"}
       /\ Classify(which, line).made = <<>>

\* A line of the parser that ends up in the blocks: a non-blank line that is
\* not dropped, and for the export also a blank line (an empty paragraph).
Counts(which, rawLine) ==
    IF Trim(rawLine) = <<>> THEN which = "export" ELSE ~Dropped(which, Trim(rawLine))

SeparatorThenBullet == <<"-", "-", "-", NL, "-", SP, "x", SP, SP, "y">>

-----------------------------------------------------------------------------
(* C5 *)

RECURSIVE Units(_)
\* the blocks of ns, a bullet list counted once per item
Units(ns) ==
    IF ns = <<>> THEN 0
    ELSE (IF ns[1].type = "bullet" /\ "items" \in DOMAIN ns[1] THEN Len(ns[1].items) ELSE 1)
         + Units(Tail(ns))

\* blocks and bullet items the parser holds, pending bullets included
Held(ns, buffer) == Units(ns) + Len(buffer)

BulletThenDisclaimer ==
    <<"-", SP, "x", SP, SP, "y", NL, "Bu", SP, "transkripsiyon", SP, "metni">>

-----------------------------------------------------------------------------
(* C7 *)

\* where 'Konus,maci. <N>' stands in s, case-insensitively as the i flag folds
Occurrences(s) ==
    {j \in 1..Len(s) : IsSpeakerWord(s[j])
                       /\ SkipDigits(s, SkipWS(s, j + 1)) > SkipWS(s, j + 1)}

\* the N of the occurrence at j: the digits, as written
NumberAt(s, j) == SubSeq(s, SkipWS(s, j + 1), SkipDigits(s, SkipWS(s, j + 1)) - 1)

\* where a legacy marker '<Letter> Kis,isi' stands in s
LegacyOccurrences(s) ==
    {j \in 1..Len(s) : IsLetter(s[j]) /\ SkipWS(s, j + 1) <= Len(s)
                       /\ IsLegacyWord(s[SkipWS(s, j + 1)])}

-----------------------------------------------------------------------------
(* C6 *)

\* the scenario after compression: the heading line, the header of speaker 1,
\* the continuation bullet, the header of speaker 2
ScenarioCompressed ==
    <<(<<CLIPBOARD, SP, BASLIK_UPPER, ":", SP, "Toplanti">>),
      Header(TRUE, KONUSMACI, <<"1">>, <<"0", "0", ":", "0", "1">>, <<"Merhaba">>),
      <<SP, SP, BULLET, SP, "[", "0", "0", ":", "0", "3", "]", SP, "Nasilsin">>,
      Header(TRUE, KONUSMACI, <<"2">>, T0005, <<"Iyiyim">>)>>

\* C6 (end-to-end scenario) as claimed: the scenario compresses to heading
\* line, header, continuation bullet, new header; the preview parses it to
\* exactly a heading 'Toplanti' without detail and the turns of speaker 1 and
\* speaker 2; the counter returns 2.
C6_Scenario_Claimed ==
    (pc = "parsed" /\ impl = "panel" /\ text = Scenario) =>
        /\ Split(compressConsecutiveSpeakers("panel", text)) = ScenarioCompressed
        /\ Len(nodes) = 3
        /\ nodes[1] = Heading(<<"Toplanti">>, UNDEFINED)
        /\ nodes[2].type = "speaker" /\ nodes[2].speaker = <<KONUSMACI, SP, "1">>
        /\ nodes[3].type = "speaker" /\ nodes[3].speaker = <<KONUSMACI, SP, "2">>
        /\ countSpeakersFromTranscription(text) = 2

\* what the code does on the scenario: the heading keeps the detail, and the
\* continuation bullet is a block of its own between the two turns
C6_Scenario_Observed ==
    (pc = "parsed" /\ impl = "panel" /\ text = Scenario) =>
        /\ lines = ScenarioCompressed
        /\ nodes = <<Heading(<<"Toplanti">>, <<BASLIK_UPPER>>),
                     SpeakerTurn(<<KONUSMACI, SP, "1">>, <<"0", "0", ":", "0", "1">>,
                                 <<"Merhaba">>),
                     BulletList(<<(<<"[", "0", "0", ":", "0", "3", "]", SP, "Nasilsin">>)>>),
                     SpeakerTurn(<<KONUSMACI, SP, "2">>, T0005, <<"Iyiyim">>)>>
        /\ countSpeakersFromTranscription(text) = 2

-----------------------------------------------------------------------------
(* C8 *)

\* the strings of a block
Strings(b) ==
    IF b.type = "heading" THEN {b.title, b.detail}
    ELSE IF b.type = "speaker" THEN {b.speaker, b.time, b.content}
    ELSE IF b.type = "paragraph" THEN {b.content}
    ELSE IF "items" \in DOMAIN b THEN {b.items[i] : i \in 1..Len(b.items)}
    ELSE {b.content}

\* no asterisk, no white space at either end
Clean(v) == (\A i \in 1..Len(v) : v[i] # "*") /\ Trim(v) = v

\* C8 (block text hygiene): every string of every block the parser holds or
\* returns, pending bullet items included, has no asterisk and neither
\* leading nor trailing white space.
C8_BlockTextHygiene ==
    pc \in {"parsing", "parsed"} =>
        /\ \A i \in 1..Len(nodes) : \A v \in Strings(nodes[i]) : Clean(v)
        /\ \A i \in 1..Len(bulletBuffer) : Clean(bulletBuffer[i])

C8_Witness ==
    /\ pc = "parsed"
    /\ text = Header(TRUE, KONUSMACI, <<"1">>, T0005, <<"*", SP, "a", SP, "*">>)
    /\ nodes = <<SpeakerTurn(<<KONUSMACI, SP, "1">>, T0005, <<"a">>)>>

-----------------------------------------------------------------------------
(* C9 *)

RECURSIVE Ungrouped(_)
\* the nodes of the preview with every bullet list as the bullet entries of
\* the export, one per item
Ungrouped(ns) ==
    IF ns = <<>> THEN <<>>
    ELSE (IF ns[1].type = "bullet"
          THEN [i \in 1..Len(ns[1].items) |-> BulletBlock(ns[1].items[i])]
          ELSE <<ns[1]>>)
         \o Ungrouped(Tail(ns))

\* C9 (one document model) as claimed: what the preview parses is, bullet
\* lists ungrouped, what the export parses from the same text.
C9_SameBlocks_Claimed ==
    (pc = "parsed" /\ impl = "panel") => Ungrouped(nodes) = parseTranscriptionBlocks(text)

-----------------------------------------------------------------------------
(* C10 *)

\* the place of a letter in the alphabet, in decimal, whatever its case
AlphabetPosition(c) ==
    CASE c \in {"A", "a"} -> <<"1">>
      [] c \in {"B", "b"} -> <<"2">>
      [] c \in {"Z", "z"} -> <<"2", "6">>

RECURSIVE SpeakerNumbers(_, _)
\* the numbers of the labels 'PERSON Konus,maci. <k>' of s from index i, in order
SpeakerNumbers(s, i) ==
    IF i > Len(s) THEN <<>>
    ELSE (IF s[i] = PERSON /\ ModernAt(s, SkipWS(s, i + 1)).end > 0
          THEN <<ModernAt(s, SkipWS(s, i + 1)).group>> ELSE <<>>)
         \o SpeakerNumbers(s, i + 1)

RECURSIVE ExpectedNumbers(_, _)
\* the numbers s is to show once its legacy labels are rewritten: the
\* alphabet position of the letter for each legacy label '<Letter> Kis,isi
\* [time]:', the number it has for each label 'PERSON Konus,maci. <k>'
ExpectedNumbers(s, i) ==
    IF i > Len(s) THEN <<>>
    ELSE IF LegacyLabelAt(s, i).end > 0
    THEN <<AlphabetPosition(s[i])>> \o ExpectedNumbers(s, LegacyLabelAt(s, i).end)
    ELSE (IF s[i] = PERSON /\ ModernAt(s, SkipWS(s, i + 1)).end > 0
          THEN <<ModernAt(s, SkipWS(s, i + 1)).group>> ELSE <<>>)
         \o ExpectedNumbers(s, i + 1)

\* C10 (legacy label canonicalization): the legacy replace turns every label
\* '<Letter> Kis,isi [time]:' into a label 'PERSON Konus,maci. <k>' with k the
\* letter's place in the alphabet (A and a give 1, B and b give 2, Z gives
\* 26), and no statement after it but the one that gives a bare label its
\* icon changes the numbers of the labels.
C10_LegacyLabels ==
    [][/\ FormatLegacy => SpeakerNumbers(out', 1) = ExpectedNumbers(out, 1)
       /\ (FormatIconLabels \/ FormatSections \/ FormatTitles \/ FormatPunctuation
           \/ FormatReturn) => SpeakerNumbers(out', 1) = SpeakerNumbers(out, 1)]_vars

\* two legacy labels, capital Z and small a
TwoLegacyLabels ==
    <<"Z", SP, KISISI, SP, "[", "0", ":", "1", "]", ":", SP,
      "a", KISISI_LOWER, "[", "0", ":", "1", "]", ":">>

C10_Witness ==
    /\ pc = "formatted"
    /\ text = TwoLegacyLabels
    /\ out = <<PERSON, SP, KONUSMACI, SP, "2", "6", SP, "[", "0", ":", "1", "]", ":", SP,
               PERSON, SP, KONUSMACI, SP, "1", SP, "[", "0", ":", "1", "]", ":">>

-----------------------------------------------------------------------------
(* C11 *)

\* the classifiers of the preview in the order of the claim
ClassifierOrder ==
    <<"separator", "disclaimer", "speaker", "iconSpeaker", "bullet", "looseHeading",
      "markdownHeading", "iconHeading", "fallbackSpeaker", "paragraph">>

\* the pattern of a classifier holds of a trimmed, non-blank line
Matches(kind, line) ==
    CASE kind = "separator" -> IsSeparator(line)
      [] kind = "disclaimer" -> IsDisclaimer(line)
      [] kind = "speaker" -> speakerPattern(line).ok
      [] kind = "iconSpeaker" -> line[1] = PERSON
      [] kind = "bullet" -> IsBulletLine(line)
      [] kind = "looseHeading" -> IsLooseHeading(line)
      [] kind = "markdownHeading" -> IsMarkdownHeading(line)
      [] kind = "iconHeading" -> line[1] = CLIPBOARD
      [] kind = "fallbackSpeaker" -> fallbackSpeakerMatch(line).ok
      [] OTHER -> TRUE

\* the first classifier of the order whose pattern the line matches
FirstMatch(line) ==
    ClassifierOrder[Least({i \in 1..Len(ClassifierOrder) : Matches(ClassifierOrder[i], line)})]

\* the type of the block a classifier pushes, "none" if it pushes no block
BlockType(kind) ==
    CASE kind \in {"speaker", "iconSpeaker", "fallbackSpeaker"} -> "speaker"
      [] kind \in {"looseHeading", "markdownHeading", "iconHeading"} -> "heading"
      [] kind = "paragraph" -> "paragraph"
      [] OTHER -> "none"

\* how many blocks a classifier may push for one line
BlockCounts(kind) ==
    CASE kind \in {"separator", "disclaimer", "bullet"} -> {0}
      [] kind \in {"looseHeading", "markdownHeading"} -> {0, 1}
      [] OTHER -> {1}

\* C11 (classifier priority): on every non-blank line the preview takes the
\* branch of the first classifier, in the order separator, disclaimer,
\* numbered speaker, icon speaker, bullet, bold heading, ATX heading, icon
\* heading, fallback speaker, paragraph, whose pattern the line matches, and
\* what the turn pushes is that classifier's: a bullet line at most one item
\* to the buffer; any other line, after the pending bullets, no block
\* (separator, disclaimer), at most one Heading (bold, ATX) or exactly one
\* block of the classifier's type.
C11_ClassifierPriority ==
    [][(ParseStep /\ impl = "panel" /\ Trim(lines[lineNo + 1]) # <<>>) =>
         LET line == Trim(lines[lineNo + 1])
             k == FirstMatch(line)
             base == Flushed(nodes, bulletBuffer)
         IN /\ Classify(impl, line).kind = k
            /\ IF k = "bullet"
               THEN /\ nodes' = nodes
                    /\ Len(bulletBuffer') - Len(bulletBuffer) \in {0, 1}
                    /\ SubSeq(bulletBuffer', 1, Len(bulletBuffer)) = bulletBuffer
               ELSE /\ bulletBuffer' = <<>>
                    /\ Len(nodes') - Len(base) \in BlockCounts(k)
                    /\ SubSeq(nodes', 1, Len(base)) = base
                    /\ Len(nodes') > Len(base) => nodes'[Len(nodes')].type = BlockType(k)]_vars

\* a bullet line, then a line that is a separator once its spaces are
\* removed and also starts like a bullet line
BulletThenSpacedDashes == <<"-", SP, "x", SP, SP, "y", NL, "-", SP, "-", SP, "-">>

C11_Witness ==
    /\ pc = "parsed"
    /\ impl = "panel"
    /\ text = BulletThenSpacedDashes
    /\ Matches("separator", lines[2]) /\ Matches("bullet", lines[2])
    /\ nodes = <<BulletList(<<(<<"x", SP, "y">>)>>)>>

-----------------------------------------------------------------------------
(* C12 *)

\* the branch the preview takes for a line, "blank" for a blank line
LineKind(rawLine) ==
    IF Trim(rawLine) = <<>> THEN "blank" ELSE Classify("panel", Trim(rawLine)).kind

\* the first line of the maximal run of bullet lines that line i of ls ends
RunStart(ls, i) == Least({a \in 1..i : \A j \in a..i : LineKind(ls[j]) = "bullet"})

\* the items of the bullet lines a..b of ls, in the order of the lines
RunItems(ls, a, b) ==
    Flatten([j \in 1..b - a + 1 |-> Classify("panel", Trim(ls[a + j - 1])).made])

\* The blocks of ls stated on runs: line by line in the order of the lines, a
\* non-bullet line gives the block of its classifier if it has one, and the
\* last line of a maximal run of consecutive bullet lines gives one
\* BulletList of the items of the run, if the run has any item.
RunGrouped(ls) ==
    Flatten([i \in 1..Len(ls) |->
        IF LineKind(ls[i]) = "blank" THEN <<>>
        ELSE IF LineKind(ls[i]) # "bullet" THEN Classify("panel", Trim(ls[i])).made
        ELSE IF i < Len(ls) /\ LineKind(ls[i + 1]) = "bullet" THEN <<>>
        ELSE IF RunItems(ls, RunStart(ls, i), i) = <<>> THEN <<>>
        ELSE <<BulletList(RunItems(ls, RunStart(ls, i), i))>>])

\* C12 (bullet buffer flushing): in the preview the pending bullets are pushed
\* as one BulletList and the buffer cleared at every blank line, at every
\* line that is not a bullet line and at the end; so after any number of
\* lines the nodes, with the pending bullets flushed, are the blocks of those
\* lines in their order with each maximal run of bullet lines as one
\* BulletList of its items, no BulletList is empty, and the buffer is empty
\* after a non-bullet line and when the parser has ended.
C12_BulletFlushing ==
    (pc \in {"parsing", "parsed"} /\ impl = "panel") =>
        /\ \A i \in 1..Len(nodes) : nodes[i].type = "bullet" => nodes[i].items # <<>>
        /\ Flushed(nodes, bulletBuffer) = RunGrouped(SubSeq(lines, 1, lineNo))
        /\ (lineNo > 0 /\ LineKind(lines[lineNo]) # "bullet") => bulletBuffer = <<>>
        /\ pc = "parsed" => bulletBuffer = <<>>

C12_Witness ==
    /\ pc = "parsed"
    /\ impl = "panel"
    /\ text = BulletRuns
    /\ Len(lines) = 6
    /\ nodes = <<BulletList(<<(<<"x", SP, "y">>), (<<"z">>)>>),
                 BulletList(<<(<<"x", SP, "y">>)>>),
                 Paragraph(<<"a">>)>>

-----------------------------------------------------------------------------
(* C13 *)

\* the line scanned last is a header that repeats lastSpeaker and has
\* neither a time nor a content
EmptyRepeatScanned ==
    /\ pc \in {"scan", "returned"} /\ lineNo > 0
    /\ LastHeader.ok /\ prevSpeaker = LastHeader.speakerId
    /\ ~Truthy(LastHeader.timeRaw) /\ ~Truthy(LastHeader.content)

\* C13 (empty same-speaker header) as claimed: for a header that repeats
\* lastSpeaker and has neither time nor content the compressor pushes no line
\* at all, not even an empty one, and leaves lastSpeaker as it was.
C13_EmptyRepeat_Claimed ==
    EmptyRepeatScanned => emitted = <<>> /\ lastSpeaker = prevSpeaker

\* what the two copies do: PDFExport pushes nothing, TranscriptionPanel
\* pushes one empty line; both leave lastSpeaker as it was
C13_EmptyRepeat_Observed ==
    EmptyRepeatScanned =>
        /\ emitted = IF impl = "panel" THEN <<(<<>>)>> ELSE <<>>
        /\ lastSpeaker = prevSpeaker

-----------------------------------------------------------------------------
(* C14 *)

\* the label is the title word in some letter case
IsTitleWord(label) == label \in {<<BASLIK_UPPER>>, <<BASLIK_TITLE>>, <<BASLIK_LOWER>>}

\* the label is the title word as toLowerCase compares it: every spelling
\* but the one with the capital "I", whose lower case is the dotted "i"
LowersToTitleWord(label) == label \in {<<BASLIK_TITLE>>, <<BASLIK_LOWER>>}

\* The Heading of an icon heading line stated on the first colon: the title
\* is the text after it and the detail the label before it, absent for a
\* label the predicate absent holds of, for an empty label and without a
\* colon (then the title is the whole text).
HeadingBy(line, absent(_)) ==
    LET cleaned == Trim(From(line, SkipWS(line, 2)))
        c == IndexOf(cleaned, ":", 1)
        label == Trim(SubSeq(cleaned, 1, c - 1))
    IN IF c = 0 THEN Heading(stripMarkdownTokens(cleaned), UNDEFINED)
       ELSE Heading(stripMarkdownTokens(From(cleaned, c + 1)),
                    IF label = <<>> \/ absent(label) THEN UNDEFINED
                    ELSE stripMarkdownTokens(label))

\* a turn of the parser on an icon heading line
IconHeadingStep ==
    /\ ParseStep
    /\ Trim(lines[lineNo + 1]) # <<>>
    /\ Classify(impl, Trim(lines[lineNo + 1])).kind = "iconHeading"

\* C14 (heading detail rule) as claimed: for 'CLIPBOARD Label: Title' the
\* title is the text after the first colon and the detail the label, absent
\* whenever the label is the title word in any letter case, the upper-case
\* 'BAS,LIK' included; for 'CLIPBOARD Title' the detail is absent.
C14_HeadingDetail_Claimed ==
    [][IconHeadingStep =>
         nodes'[Len(nodes')] = HeadingBy(Trim(lines[lineNo + 1]), IsTitleWord)]_vars

\* what the code does: the detail is absent only for a label whose
\* toLowerCase() is the literal, which the upper-case form is not
C14_HeadingDetail_Observed ==
    [][IconHeadingStep =>
         nodes'[Len(nodes')] = HeadingBy(Trim(lines[lineNo + 1]), LowersToTitleWord)]_vars

-----------------------------------------------------------------------------
(* C15 *)

\* the members of s at the indexes of keep, in their order
Pick(s, keep) ==
    [i \in 1..Cardinality(keep) |->
        s[CHOOSE j \in keep : Cardinality({k \in keep : k <= j}) = i]]

IsBlank(line) == Trim(line) = <<>>
IsBulletOnly(line) == Trim(line) = <<BULLET>>

\* line i of ls is a blank line of a run of three or more blank lines, and
\* not the first of the run
LaterOfLongRun(ls, i) ==
    /\ i > 1 /\ IsBlank(ls[i]) /\ IsBlank(ls[i - 1])
    /\ \E a \in 1..i : \E b \in i..Len(ls) :
          b - a >= 2 /\ \A j \in a..b : IsBlank(ls[j])

\* the output the claim describes: of each run of three or more blank lines
\* one line stays, shorter runs stay, the bullet-only lines go, and the
\* white space at the end goes
ClaimedPostPass(ls) ==
    TrimEnd(Join(Pick(ls, {i \in 1..Len(ls) :
                              ~LaterOfLongRun(ls, i) /\ ~IsBulletOnly(ls[i])})))

BulletBetween == <<"a", NL, BULLET, NL, "a">>

\* s without the third and every later newline of each run of newlines
TwoNewlinesKept(s) ==
    Pick(s, {j \in 1..Len(s) :
                ~(j >= 3 /\ s[j] = NL /\ s[j - 1] = NL /\ s[j - 2] = NL)})

\* the lines of ls that are neither blank nor bullet-only
ContentLines(ls) == SelectSeq(ls, LAMBDA l : ~IsBlank(l) /\ ~IsBulletOnly(l))

\* ls with the white space at the end of its last line removed
TrimLast(ls) == IF ls = <<>> THEN ls ELSE [ls EXCEPT ![Len(ls)] = TrimEnd(@)]

TwoBlankLines == <<"a", NL, NL, NL, "a">>

-----------------------------------------------------------------------------
(* C16 *)

\* the line '**T**'
BoldTitle == <<"*", "*", "T", "*", "*">>

\* a bullet line, then the line '**T**'
BulletThenBoldTitle == <<"-", SP, "x", SP, SP, "y", NL>> \o BoldTitle

\* the text ends with the line '**T**'
EndsWithBoldTitle == Split(text)[Len(Split(text))] = BoldTitle

\* C16 (bold solitary heading) as claimed: a line '**T**' yields the Heading
\* with the title 'T', pushed after the pending bullets.
C16_BoldHeading_Claimed ==
    (pc = "parsed" /\ EndsWithBoldTitle) =>
        /\ nodes # <<>> /\ nodes[Len(nodes)] = Heading(<<"T">>, UNDEFINED)
        /\ (impl = "panel" /\ text = BulletThenBoldTitle) =>
              nodes = <<BulletList(<<(<<"x", SP, "y">>)>>), Heading(<<"T">>, UNDEFINED)>>

\* what the two parsers do: the export pushes the Heading, the preview has
\* unwrapped the bold markup before it classifies and pushes a Paragraph
C16_BoldHeading_Observed ==
    (pc = "parsed" /\ EndsWithBoldTitle) =>
        /\ nodes # <<>>
        /\ nodes[Len(nodes)] = IF impl = "panel" THEN Paragraph(<<"T">>)
                               ELSE Heading(<<"T">>, UNDEFINED)
        /\ (impl = "panel" /\ text = BulletThenBoldTitle) =>
              nodes = <<BulletList(<<(<<"x", SP, "y">>)>>), Paragraph(<<"T">>)>>

-----------------------------------------------------------------------------
(* C17 *)

\* the scan has scanned at least n lines
Scanned(n) == pc \in {"scan", "returned"} /\ lineNo >= n

\* a header, a line of one space, a header of the same speaker
BlankBetweenHeaders ==
    Join(<<Header(TRUE, KONUSMACI, <<"1">>, T0000, <<"Merhaba">>),
           <<SP>>,
           Header(TRUE, KONUSMACI, <<"1">>, T0005, <<"Nasilsin">>)>>)

\* C17 (blank-line reset): for a blank or white-space-only line the
\* compressor pushes the empty line and sets lastSpeaker to null, and a
\* speaker header right after such a line is pushed as the full header and
\* sets lastSpeaker, whichever speaker came before the blank line.
C17_BlankLineReset ==
    /\ (Scanned(1) /\ IsBlank(lines[lineNo]))
          => emitted = <<(<<>>)>> /\ lastSpeaker = NULL
    /\ (Scanned(2) /\ IsBlank(lines[lineNo - 1]) /\ LastHeader.ok)
          => /\ emitted = <<FullHeader(LastHeader.speakerId, LastHeader.timeRaw,
                                       LastHeader.content)>>
             /\ lastSpeaker = LastHeader.speakerId

C17_Witness ==
    /\ pc = "returned"
    /\ text = BlankBetweenHeaders
    /\ result = <<Header(TRUE, KONUSMACI, <<"1">>, T0000, <<"Merhaba">>),
                  <<>>,
                  Header(TRUE, KONUSMACI, <<"1">>, T0005, <<"Nasilsin">>)>>
    /\ prevSpeaker = NULL /\ lastSpeaker = <<"1">>

-----------------------------------------------------------------------------
(* C18 *)

\* a trimmed line that starts with the heading icon, or with one to three
\* '#' and then a white space
StructuralHeadingLine(t) ==
    /\ Len(t) >= 1
    /\ \/ t[1] = CLIPBOARD
       \/ \E n \in 1..3 : /\ Len(t) > n
                          /\ \A k \in 1..n : t[k] = "#"
                          /\ t[n + 1] \in WhiteSpace

\* a trimmed line that starts with a bracketed time of one or two digits, a
\* colon and two digits
StandaloneTimeLine(t) ==
    \E m \in 1..2 :
        /\ Len(t) >= m + 5
        /\ t[1] = "[" /\ t[m + 2] = ":" /\ t[m + 5] = "]"
        /\ \A k \in (2..m + 1) \cup (m + 3..m + 4) : t[k] \in Digits

\* a header, an icon heading with a space at its end, a standalone time line
HeadingThenTimeLine ==
    Join(<<Header(TRUE, KONUSMACI, <<"1">>, T0000, <<"Merhaba">>),
           <<CLIPBOARD, "t", SP>>,
           <<"[">> \o T0007 \o <<"]", SP, "c">>>>)

\* C18 (heading reset): a line that is a structural heading (icon-prefixed,
\* or '#', '##', '###' and a white space) is pushed exactly as it was in the
\* input and sets lastSpeaker to null; the speaker header right after it is
\* pushed in full, and a standalone time line right after it is pushed as it
\* was, not as a bullet.
C18_HeadingReset ==
    /\ (Scanned(1) /\ StructuralHeadingLine(Trim(lines[lineNo])))
          => emitted = <<lines[lineNo]>> /\ lastSpeaker = NULL
    /\ (Scanned(2) /\ StructuralHeadingLine(Trim(lines[lineNo - 1])) /\ LastHeader.ok)
          => /\ emitted = <<FullHeader(LastHeader.speakerId, LastHeader.timeRaw,
                                       LastHeader.content)>>
             /\ lastSpeaker = LastHeader.speakerId
    /\ (Scanned(2) /\ StructuralHeadingLine(Trim(lines[lineNo - 1]))
          /\ StandaloneTimeLine(Trim(lines[lineNo])))
          => emitted = <<lines[lineNo]>> /\ lastSpeaker = NULL

C18_Witness ==
    /\ pc = "returned"
    /\ text = HeadingThenTimeLine
    /\ result = <<Header(TRUE, KONUSMACI, <<"1">>, T0000, <<"Merhaba">>),
                  <<CLIPBOARD, "t", SP>>,
                  <<"[">> \o T0007 \o <<"]", SP, "c">>>>
    /\ lastSpeaker = NULL

-----------------------------------------------------------------------------
(* C19 *)

\* the bracketed time a standalone time line starts with
BracketedTime(t) == SubSeq(t, 1, IndexOf(t, "]", 1))

\* '  BULLET [mm:ss] content' of a standalone time line, the content only if
\* there is one
TimeBullet(t) ==
    LET content == Trim(From(t, IndexOf(t, "]", 1) + 1))
    IN <<SP, SP, BULLET, SP>> \o BracketedTime(t)
       \o (IF content = <<>> THEN <<>> ELSE <<SP>> \o content)

\* a header, then a standalone time line
HeaderThenTimeLine ==
    Join(<<Header(TRUE, KONUSMACI, <<"1">>, T0000, <<"Merhaba">>),
           <<"[">> \o T0007 \o <<"]", SP, "c">>>>)

\* C19 (standalone continuation): a line '[mm:ss] content' is pushed as the
\* bullet '  BULLET [mm:ss] content' exactly when lastSpeaker is set when the
\* line is scanned, and as it was when lastSpeaker is null; lastSpeaker
\* keeps its value either way.
C19_StandaloneContinuation ==
    (Scanned(1) /\ StandaloneTimeLine(Trim(lines[lineNo]))) =>
        /\ emitted = IF prevSpeaker # NULL THEN <<TimeBullet(Trim(lines[lineNo]))>>
                     ELSE <<lines[lineNo]>>
        /\ lastSpeaker = prevSpeaker

C19_Witness ==
    /\ pc = "returned"
    /\ text = HeaderThenTimeLine
    /\ result = <<Header(TRUE, KONUSMACI, <<"1">>, T0000, <<"Merhaba">>),
                  <<SP, SP, BULLET, SP, "[">> \o T0007 \o <<"]", SP, "c">>>>
    /\ lastSpeaker = <<"1">>

-----------------------------------------------------------------------------
(* C20 *)

\* a non-blank line that is neither a speaker header, nor a structural
\* heading, nor a standalone time line
PassThroughLine(rawLine) ==
    /\ ~IsBlank(rawLine)
    /\ ~speakerMatch(Trim(rawLine)).ok
    /\ ~StructuralHeadingLine(Trim(rawLine))
    /\ ~StandaloneTimeLine(Trim(rawLine))

\* the line scanned last follows a header of speaker id and, after that
\* header, pass-through lines only (at least one)
AfterPassThrough(id) ==
    \E a \in 1..lineNo - 2 :
        /\ speakerMatch(Trim(lines[a])).ok
        /\ speakerMatch(Trim(lines[a])).speakerId = id
        /\ \A j \in a + 1..lineNo - 1 : PassThroughLine(lines[j])

\* a header, a plain line with spaces around it, a header of the same speaker
PlainLineBetweenHeaders ==
    Join(<<Header(TRUE, KONUSMACI, <<"1">>, T0000, <<"Merhaba">>),
           <<SP, "a", SP>>,
           Header(TRUE, KONUSMACI, <<"1">>, T0005, <<"Nasilsin">>)>>)

\* C20 (pass-through lines keep the state): a non-blank line that is neither
\* a speaker header, nor a structural heading, nor a standalone time line is
\* pushed as it was, character for character, and leaves lastSpeaker as it
\* was; so a header with a time or a content that follows a header of the
\* same speaker and any number of such lines is pushed as a continuation
\* bullet.
C20_PassThrough ==
    /\ (Scanned(1) /\ PassThroughLine(lines[lineNo]))
          => emitted = <<lines[lineNo]>> /\ lastSpeaker = prevSpeaker
    /\ (Scanned(3) /\ LastHeader.ok /\ AfterPassThrough(LastHeader.speakerId)
          /\ (Truthy(LastHeader.timeRaw) \/ Truthy(LastHeader.content)))
          => /\ emitted = <<ContinuationBullet(LastHeader.timeRaw, LastHeader.content)>>
             /\ lastSpeaker = prevSpeaker

C20_Witness ==
    /\ pc = "returned"
    /\ text = PlainLineBetweenHeaders
    /\ result = <<Header(TRUE, KONUSMACI, <<"1">>, T0000, <<"Merhaba">>),
                  <<SP, "a", SP>>,
                  <<SP, SP, BULLET, SP, "[">> \o T0005 \o <<"]", SP, "Nasilsin">>>>
    /\ lastSpeaker = <<"1">>

\* C20 as claimed: every header that follows a header of the same speaker
\* and pass-through lines is pushed as a continuation bullet.
C20_PassThrough_Claimed ==
    /\ (Scanned(1) /\ PassThroughLine(lines[lineNo]))
          => emitted = <<lines[lineNo]>> /\ lastSpeaker = prevSpeaker
    /\ (Scanned(3) /\ LastHeader.ok /\ AfterPassThrough(LastHeader.speakerId))
          => /\ emitted = <<ContinuationBullet(LastHeader.timeRaw, LastHeader.content)>>
             /\ lastSpeaker = prevSpeaker

-----------------------------------------------------------------------------
(* C21 *)

\* a character that is neither an asterisk nor white space
IsContent(c) == c # "*" /\ c \notin WhiteSpace

\* the white space of a stretch of text
Spaces(s) == SelectSeq(s, LAMBDA c : c \in WhiteSpace)

\* what stands for the white space between two content characters
Separator(gap) == IF Len(gap) >= 2 THEN <<SP>> ELSE gap

RECURSIVE StrippedFrom(_, _)
\* the content character at index i and what follows it
StrippedFrom(s, i) ==
    LET k == Least({j \in i + 1..Len(s) : IsContent(s[j])})
    IN IF k = 0 THEN <<s[i]>>
       ELSE <<s[i]>> \o Separator(Spaces(SubSeq(s, i + 1, k - 1))) \o StrippedFrom(s, k)

\* the content characters of s in order, with one separator wherever white
\* space stood between two of them
Stripped(s) ==
    LET k == Least({j \in 1..Len(s) : IsContent(s[j])})
    IN IF k = 0 THEN <<>> ELSE StrippedFrom(s, k)

NoWhitespaceRun(s) ==
    \A i \in 1..Len(s) - 1 : ~(s[i] \in WhiteSpace /\ s[i + 1] \in WhiteSpace)

\* C21 (markdown stripping): stripMarkdownTokens returns the text with its
\* asterisk wrappers unwrapped and the wrapped content kept, without any
\* asterisk, with every run of 2 or more white-space characters collapsed to
\* one space and without leading or trailing white space; applied to its own
\* result it returns that result.
C21_MarkdownStripping ==
    /\ pc \in {"stripped", "stripped twice"} =>
          /\ \A i \in 1..Len(out) : out[i] # "*"
          /\ NoWhitespaceRun(out)
          /\ out # <<>> => out[1] \notin WhiteSpace /\ out[Len(out)] \notin WhiteSpace
          /\ out = Stripped(text)
    /\ pc = "stripped twice" => out2 = out

\* the example of the spec, stripped twice
C21_Witness ==
    /\ pc = "stripped twice"
    /\ text = BoldGreeting
    /\ out = <<"iyi", SP, "gunler">>
    /\ out2 = out

-----------------------------------------------------------------------------
(* C22 *)

\* the letters (by their place in the alphabet, so in either case) that stand
\* before the legacy word in s
LegacyLetters(s) ==
    {k \in 1..26 : \E j \in 1..Len(s) :
        /\ s[j] \in {Alphabet[k], LowerAlphabet[k]}
        /\ SkipWS(s, j + 1) <= Len(s)
        /\ IsLegacyWord(s[SkipWS(s, j + 1)])}

\* C22 (dialect precedence in counting): the legacy '<Letter> Kis,isi'
\* pattern is consulted only when the text has no 'Konus,maci. <N>'
\* occurrence; with at least one modern label the count is the number of
\* distinct N, whatever legacy labels the text has; with legacy labels only
\* the count is the number of distinct letters, compared without regard to
\* case.
C22_DialectPrecedence ==
    /\ pc = "legacy" => Occurrences(text) = {}
    /\ pc = "counted" =>
          /\ Occurrences(text) # {}
                => count = Cardinality({NumberAt(text, j) : j \in Occurrences(text)})
          /\ (Occurrences(text) = {} /\ LegacyLetters(text) # {})
                => count = Cardinality(LegacyLetters(text))

\* one modern label and two legacy labels: the count is 1
C22_Witness ==
    /\ pc = "counted"
    /\ text = <<KONUSMACI, SP, "1", "A", SP, KISISI, "B", SP, KISISI>>
    /\ Cardinality(LegacyLetters(text)) = 2
    /\ count = 1

-----------------------------------------------------------------------------
(* C23 *)

\* the other copy of the compressor
TheOther(which) == IF which = "panel" THEN "export" ELSE "panel"

RECURSIVE LastSpeakerAfter(_, _, _)
\* lastSpeaker of a copy after the lines ls, from the value last
LastSpeakerAfter(which, ls, last) ==
    IF ls = <<>> THEN last
    ELSE LastSpeakerAfter(which, Tail(ls), ScanLine(which, Head(ls), last).last)

\* some line of ls is a header without time and content that repeats the
\* speaker of the run it stands in
HasEmptyRepeat(ls) ==
    \E n \in 1..Len(ls) :
        LET sm == speakerMatch(Trim(ls[n]))
        IN /\ sm.ok /\ ~Truthy(sm.timeRaw) /\ ~Truthy(sm.content)
           /\ LastSpeakerAfter("export", SubSeq(ls, 1, n - 1), NULL) = sm.speakerId

\* C23 (the duplicated compressors agree) as claimed: on every text the
\* compressor of TranscriptionPanel and the compressor of PDFExport carry the
\* same lastSpeaker after every line and return the same string.
C23_CompressorsAgree_Claimed ==
    /\ pc \in {"scan", "returned"}
          => lastSpeaker = LastSpeakerAfter(TheOther(impl), SubSeq(lines, 1, lineNo), NULL)
    /\ pc = "returned" => out = compressConsecutiveSpeakers(TheOther(impl), text)

\* what the two copies do: the same lastSpeaker after every line, and the
\* same string for every text without an empty repeated header
C23_CompressorsAgree_Observed ==
    /\ pc \in {"scan", "returned"}
          => lastSpeaker = LastSpeakerAfter(TheOther(impl), SubSeq(lines, 1, lineNo), NULL)
    /\ (pc = "returned" /\ ~HasEmptyRepeat(Split(text)))
          => out = compressConsecutiveSpeakers(TheOther(impl), text)

-----------------------------------------------------------------------------
(* C24 *)

\* two blank lines of ls stand one after the other
HasBlankRun(ls) == \E i \in 1..Len(ls) - 1 : IsBlank(ls[i]) /\ IsBlank(ls[i + 1])

\* C24 (no run of blank lines) as claimed: whatever the input, the output of
\* the compressor has no two consecutive blank lines.
C24_NoBlankRun_Claimed == pc = "returned" => ~HasBlankRun(Split(out))

\* what the post-pass gives: no three consecutive newlines in the output of a
\* text that has no bullet marker, so blank runs are left at its start only
C24_NoBlankRun_Observed ==
    (pc = "returned" /\ \A i \in 1..Len(text) : text[i] # BULLET)
        => /\ \A j \in 1..Len(out) : ~AllAt(out, NL, 3, j)

-----------------------------------------------------------------------------
(* C25 *)

\* a line of s ends with the speaker word
EndsLineWithSpeakerWord(s) ==
    \E j \in 1..Len(s) - 1 : IsSpeakerWord(s[j]) /\ s[j + 1] = NL

\* C25 (compression preserves the speaker count) as claimed: for every text
\* t with normalized timestamps, the counter gives for the compressed t what
\* it gives for t.
C25_CountPreserved_Claimed ==
    pc = "speakers counted"
        => count = countSpeakersFromTranscription(withNormalizedTimes(text))

\* what the pipeline gives: the same count when no line ends with the
\* speaker word
C25_CountPreserved_Observed ==
    (pc = "speakers counted" /\ ~EndsLineWithSpeakerWord(text))
        => count = countSpeakersFromTranscription(withNormalizedTimes(text))

-----------------------------------------------------------------------------
(* C26 *)

\* C26 (current key is always usable): after any sequence of addKey,
\* updateKey, deleteKey, markKeyAsUsed, markKeyAsFailed and rotateKey calls,
\* getCurrentKey returns null if and only if no stored key is active, and
\* otherwise a stored key whose isActive is true, with currentKeyIndex inside
\* the list of active keys.  (returned differs from undefined exactly after a
\* getCurrentKey call.)
C26_CurrentKeyUsable ==
    returned # Undefined =>
        /\ returned = NullKey <=> Len(ActiveKeys(keys)) = 0
        /\ returned # NullKey =>
              /\ \E i \in 1..Len(keys) : keys[i].id = returned.id /\ keys[i].isActive
              /\ currentKeyIndex < Len(ActiveKeys(keys))

\* three stored keys of which only the last is active: it is the one returned
C26_Witness ==
    /\ Len(keys) = 3
    /\ ~keys[1].isActive /\ ~keys[2].isActive /\ keys[3].isActive
    /\ returned = KeyRef(keys[3])
    /\ currentKeyIndex = 0

-----------------------------------------------------------------------------
(* C27 *)

\* the stored key with the id (the id is one of a stored key)
KeyOf(ks, id) == ks[IndexOfKey(ks, id)]

\* the key with the id is stored, active before the step and inactive after it
BecomesInactive(id) ==
    /\ IndexOfKey(keys, id) > 0 /\ IndexOfKey(keys', id) > 0
    /\ KeyOf(keys, id).isActive /\ ~KeyOf(keys', id).isActive

\* the step is a markKeyAsFailed call on the stored key with the id, the
\* third since the key was made or last marked as used
ThirdFailure(id) ==
    /\ IndexOfKey(keys, id) > 0
    /\ failedCalls'[id] = failedCalls[id] + 1
    /\ failedCalls'[id] = FailureLimit

\* C27 (failure threshold): when nothing but markKeyAsUsed and
\* markKeyAsFailed changes isActive, a key becomes inactive exactly at the
\* third markKeyAsFailed call on it with no markKeyAsUsed on it in between;
\* failureCount is the number of such calls, so markKeyAsUsed resets it to
\* 0; and every active key has a failure count below 3.
C27_FailureThreshold ==
    /\ [](\A i \in 1..Len(keys) :
             /\ keys[i].failureCount = failedCalls[keys[i].id]
             /\ keys[i].isActive => keys[i].failureCount < FailureLimit)
    /\ [][\A id \in KeyIds :
              BecomesInactive(id) <=> (ThirdFailure(id) /\ KeyOf(keys, id).isActive)]_vars

\* a key that three failed calls in a row have disabled
C27_Witness ==
    \E i \in 1..Len(keys) :
        /\ ~keys[i].isActive
        /\ keys[i].failureCount = FailureLimit
        /\ failedCalls[keys[i].id] = FailureLimit

-----------------------------------------------------------------------------
(* C28 *)

\* the ids of the active keys, in list order
ActiveIds == [i \in 1..Len(ActiveKeys(keys)) |-> ActiveKeys(keys)[i].id]

\* w is the list act read in a circle from one of its members
IsRotation(w, act) ==
    \E r \in 0..Len(act) - 1 :
        \A j \in 1..Len(act) : w[j] = act[((r + j - 1) % Len(act)) + 1]

\* C28 (round-robin rotation): while the set of active keys stays as it is
\* and has k >= 2 members, every k consecutive cycles of getCurrentKey and
\* rotateKey select each active key exactly once, in list order; with
\* exactly one active key rotateKey changes nothing: the index stays 0 and
\* every cycle selects that key.
C28_RoundRobin ==
    /\ Len(ActiveIds) >= 2 =>
          \A n \in 1..Len(selected) - Len(ActiveIds) + 1 :
              IsRotation(SubSeq(selected, n, n + Len(ActiveIds) - 1), ActiveIds)
    /\ (Len(ActiveIds) = 1 /\ selected # <<>>) =>
          /\ currentKeyIndex = 0
          /\ \A n \in 1..Len(selected) : selected[n] = ActiveIds[1]

\* three active keys, six cycles in a row, the first from index 1
C28_Witness ==
    /\ ActiveIds = <<1, 2, 3>>
    /\ selected = <<2, 3, 1, 2, 3, 1>>

-----------------------------------------------------------------------------
(* C29 *)

\* the invocations that are past the guard and have not ended: those
\* suspended on an await
InFlight ==
    {i \in 1..Len(saves) :
        saves[i].pc \in {"awaiting writeRecordingToDirectory", "awaiting blobToBase64"}}

\* the step starts an invocation while another one is suspended
StartsWhileSuspended == Len(saves') = Len(saves) + 1 /\ InFlight # {}

\* C29 (single save in flight): at most one saveCurrentRecording invocation
\* is past its in-progress guard at any time; an invocation that starts
\* while another is suspended on an await returns at once and leaves the
\* recordings list (and the flag) alone, so every stored recording was
\* written by an invocation that passed the guard; the flag is true exactly
\* while an invocation that passed the guard has not ended, whichever way it
\* ends; and a set flag is always reset later.
C29_SingleSave ==
    /\ [](Cardinality(InFlight) <= 1)
    /\ [](isSavingRecordingRef <=> InFlight # {})
    /\ [](\A n \in 1..Len(recordings) : saves[recordings[n].by].pc = "saved")
    /\ [][StartsWhileSuspended =>
             /\ saves'[Len(saves')].pc = "skipped"
             /\ UNCHANGED <<recordings, currentRecordingIdRef, isSavingRecordingRef>>]_vars
    /\ isSavingRecordingRef ~> ~isSavingRecordingRef

\* a save that was suspended, one that was skipped meanwhile, and a later
\* one that found the flag reset and wrote the recording
C29_Witness ==
    /\ Len(saves) = 3
    /\ saves[1].pc = "failed" /\ saves[2].pc = "skipped" /\ saves[3].pc = "saved"
    /\ ~isSavingRecordingRef
    /\ Len(recordings) = 1 /\ recordings[1].by = 3

-----------------------------------------------------------------------------
(* C30 *)

\* the parser has classified line n of its input
Classified(n) == pc \in {"parsing", "parsed"} /\ n \in 1..lineNo /\ Trim(lines[n]) # <<>>

\* C30: every line the parser classifies that matches the fallback
\* numbered-speaker pattern (label, bracketed time, colon) also matches the
\* earlier bold-tolerant numbered-speaker pattern, with the same number, time
\* and content, and no line is classified by the fallback branch, in the
\* preview and in the export.
C30_FallbackUnreachable ==
    \A n \in 1..Len(lines) :
        Classified(n) =>
            LET line == Trim(lines[n])
                fm == fallbackSpeakerMatch(line)
                sm == speakerPattern(line)
            IN /\ Classify(impl, line).kind # "fallbackSpeaker"
               /\ fm.ok => /\ sm.ok
                           /\ Classify(impl, line).kind = "speaker"
                           /\ sm.timeRaw = fm.timeRaw
                           /\ sm.contentRaw = fm.contentRaw

\* a line with the ASCII spelling, which the compressor leaves alone, matches
\* the fallback pattern and has become a speaker block of the first branch
C30_Witness ==
    /\ pc = "parsed"
    /\ impl = "export"
    /\ text = Header(FALSE, KONUSMACI_ASCII, <<"1">>, T0005, <<"x">>)
    /\ Classified(1)
    /\ fallbackSpeakerMatch(Trim(lines[1])).ok
    /\ Classify(impl, Trim(lines[1])).kind = "speaker"
    /\ nodes = <<SpeakerTurn(<<KONUSMACI, SP, "1">>, T0005, <<"x">>)>>

====
